---- MODULE Spec2Model ----
(***************************************************************************)
(* Seven-segment OCR: the structural (template matching) decoder and the   *)
(* multi-method arbitration of ProductionOCR, together with the digit to   *)
(* segment table of the dataset generator.                                 *)
(*                                                                         *)
(* Numbers.  The decoder's score is a Python float that only ever moves in *)
(* steps of 1 and 0.5; it is held here in HALF units (score 3.5 is 7).     *)
(* Confidences are floats in [0,1]; they are held as integers in units of  *)
(* 1/ConfUnit, ConfUnit = 2*7*5, which represents exactly every value the  *)
(* decoder can produce (k/14), the 0.5 cap and threshold, and the 0.6 of   *)
(* the traditional OCR.                                                    *)
(***************************************************************************)
EXTENDS Integers, Sequences, FiniteSets, TLC

VARIABLES
    cnn_available,        \* ProductionOCR.cnn_available
    tesseract_available,  \* ProductionOCR.tesseract_available
    op,                   \* the operation whose result is held, or "idle"
    methods,              \* predict_digit: the method list after defaulting
    imageOk,              \* the image survives preprocessing (no exception)
    segment_states,       \* template matching: segment name -> on/off
    cnnPred,              \* what the CNN model answers for the image
    text,                 \* what tesseract reads from the image
    invoked,              \* predict_digit: <<method, result>> of each call made
    results,              \* predict_digit: the objects in `results` at return
    ret,                  \* the returned dictionary
    digit,                \* create_clean_digit: the digit key asked for
    active_segments,      \* create_clean_digit: the segments it draws
    width,                \* SevenSegmentGenerator.width
    height,               \* SevenSegmentGenerator.height
    clean_img,            \* the clean image: sample point -> channel value
    img,                  \* the image being degraded, at the same points
    result_buf,           \* the array `result` refers to: the caller's or a new one
    gen_pc,               \* generate_sample: index of the next stage
    iter,                 \* passes made of the current stage's loop
    count,                \* passes the current stage's loop makes in all
    applied,              \* the stages that have run, in order
    particle,             \* _add_dust: the last particle drawn
    metadata,             \* generate_sample: the metadata it returns
    gen_error,            \* the exception generate_sample ended with
    bin_img,              \* the binary image: its shape and the ones per ROI
    roi_means,            \* _compute_segments_from_binary: ROI -> mean
    seg_vec,              \* the segment vector returned: ROI -> 0 or 1
    py_state,             \* the state of the module-level generator `random`
    np_state,             \* the state of the module-level generator np.random
    cur_run,              \* the generator states the current run started in
    prev_run,             \* the previous run of generate_sample that returned
    files,                \* the model files on disk: path -> missing/broken/good
    ocr,                  \* HumidityAppOCRManager.ocr: None or a ProductionOCR
    model_path,           \* ProductionOCR.model_path: the model it loaded
    constructed,          \* the paths ProductionOCR was constructed with
    reading_type,         \* process_display_reading: its reading_type
    prediction,           \* what predict_digit returned to a reading method
    model,                \* SevenSegmentOCR.model: None or a loaded model
    images,               \* predict_number_sequence: what the model reads
    raised,               \* the exception the call ended with
    filename,             \* the file name of a sample, as characters
    index,                \* the sample's index within its digit
    parsed,               \* what a reader made of the file name
    samples_per_digit,    \* generate_dataset: samples_per_digit
    all_metadata,         \* generate_dataset: all_metadata
    sample_count,         \* generate_dataset: sample_count
    summary,              \* generate_dataset: the summary written
    ds_pc                 \* generate_dataset: the digit the outer loop is at

ocrvars == <<cnn_available, tesseract_available, methods, imageOk,
             segment_states, cnnPred, text, invoked, results, ret>>

genvars == <<width, height, clean_img, img, result_buf, gen_pc, iter, count, applied,
             particle, metadata, gen_error>>

estvars == <<bin_img, roi_means, seg_vec>>

rngvars == <<py_state, np_state, cur_run, prev_run>>

appvars == <<files, ocr, model_path, constructed, reading_type, prediction>>

seqvars == <<model, images, raised>>

namevars == <<filename, index, parsed>>

datavars == <<samples_per_digit, all_metadata, sample_count, summary, ds_pc>>

extvars == <<appvars, seqvars, namevars, datavars>>

vars == <<cnn_available, tesseract_available, op, methods, imageOk,
          segment_states, cnnPred, text, invoked, results, ret, digit,
          active_segments, width, height, clean_img, img, result_buf, gen_pc, iter,
          count, applied, particle, metadata, gen_error, bin_img, roi_means,
          seg_vec, py_state, np_state, cur_run, prev_run, files, ocr,
          model_path, constructed, reading_type, prediction, model, images,
          raised, filename, index, parsed, samples_per_digit, all_metadata,
          sample_count, summary, ds_pc>>

----------------------------------------------------------------------------
(* Bounds *)

MaxMethods == 2

\* the height and width of the binary images go up to MaxDim
MaxDim == 10

\* the states a module-level random generator runs through
StreamPeriod == 3

----------------------------------------------------------------------------
(* Units and small helpers *)

ConfUnit == 2 * 7 * 5

None == -1

Min(a, b) == IF a <= b THEN a ELSE b

Max(a, b) == IF a >= b THEN a ELSE b

Range(s) == {s[i] : i \in 1..Len(s)}

Has(r, k) == k \in DOMAIN r

----------------------------------------------------------------------------
(* ProductionOCR: constants of the object and of template matching *)

confidence_threshold == ConfUnit \div 2

SegmentOrder ==
    <<"top", "top_right", "top_left", "middle",
      "bottom_right", "bottom_left", "bottom">>

SegmentNames == Range(SegmentOrder)

patterns ==
    0 :> <<"top", "top_right", "top_left", "bottom_right", "bottom_left", "bottom">> @@
    1 :> <<"top_right", "bottom_right">> @@
    2 :> <<"top", "top_right", "middle", "bottom_left", "bottom">> @@
    3 :> <<"top", "top_right", "middle", "bottom_right", "bottom">> @@
    4 :> <<"top_left", "top_right", "middle", "bottom_right">> @@
    5 :> <<"top", "top_left", "middle", "bottom_right", "bottom">> @@
    6 :> <<"top", "top_left", "middle", "bottom_left", "bottom_right", "bottom">> @@
    7 :> <<"top", "top_right", "bottom_right">> @@
    8 :> <<"top", "top_right", "top_left", "middle", "bottom_right", "bottom_left", "bottom">> @@
    9 :> <<"top", "top_right", "top_left", "middle", "bottom_right", "bottom">>

PatternOrderReversed == <<9, 8, 7, 6, 5, 4, 3, 2, 1, 0>>

\* the order patterns.items() visits the digits in
PatternOrder == <<0, 1, 2, 3, 4, 5, 6, 7, 8, 9>>

----------------------------------------------------------------------------
(* SevenSegmentGenerator: digit -> active segments *)

digit_segmentsTypo ==
    "0" :> <<"a", "b", "c", "d", "e", "f">> @@
    "1" :> <<"b", "c">> @@
    "2" :> <<"a", "b", "g", "e", "d">> @@
    "3" :> <<"a", "b", "g", "c", "d">> @@
    "4" :> <<"f", "g", "b", "c">> @@
    "5" :> <<"a", "f", "g", "c", "d">> @@
    "6" :> <<"a", "f", "g", "e", "d">> @@
    "7" :> <<"a", "b", "c">> @@
    "8" :> <<"a", "b", "c", "d", "e", "f", "g">> @@
    "9" :> <<"a", "b", "c", "d", "f", "g">>

digit_segments ==
    "0" :> <<"a", "b", "c", "d", "e", "f">> @@
    "1" :> <<"b", "c">> @@
    "2" :> <<"a", "b", "g", "e", "d">> @@
    "3" :> <<"a", "b", "g", "c", "d">> @@
    "4" :> <<"f", "g", "b", "c">> @@
    "5" :> <<"a", "f", "g", "c", "d">> @@
    "6" :> <<"a", "f", "g", "e", "d", "c">> @@
    "7" :> <<"a", "b", "c">> @@
    "8" :> <<"a", "b", "c", "d", "e", "f", "g">> @@
    "9" :> <<"a", "b", "c", "d", "f", "g">>

\* the generator's segment polygons: 'a' top, 'b' upper right, 'c' lower
\* right, 'd' bottom, 'e' lower left, 'f' upper left, 'g' middle
segments ==
    "a" :> "top" @@ "b" :> "top_right" @@ "c" :> "bottom_right" @@
    "d" :> "bottom" @@ "e" :> "bottom_left" @@ "f" :> "top_left" @@
    "g" :> "middle"

DigitKeys == {"0", "1", "2", "3", "4", "5", "6", "7", "8", "9", "10", "x"}

GetActiveSegmentsAllOn(d) ==
    IF d \in DOMAIN digit_segments THEN digit_segments[d] ELSE digit_segments["8"]

\* self.digit_segments.get(digit, [])
GetActiveSegments(d) ==
    IF d \in DOMAIN digit_segments THEN digit_segments[d] ELSE <<>>

\* np.ones((height, width, 3)) * 220
Background == 220

\* cv2.fillPoly(img, ..., (40, 40, 40))
SegmentColor == 40

\* The canvas is followed at sample points: "a".."g" is a pixel inside that
\* segment's polygon, "none" a pixel outside every polygon.  The three
\* channels of a pixel are treated alike by every stage, so one channel
\* value stands for the pixel.
SamplePoints == DOMAIN segments \cup {"none"}

\* create_clean_digit: the canvas at the sample points pts
create_clean_digit(d, pts) ==
    [p \in pts |->
        IF p \in Range(GetActiveSegments(d)) THEN SegmentColor ELSE Background]

----------------------------------------------------------------------------
(* template_matching_predict: scoring of one pattern *)

\* segment_states.get(segment, False)
StateOf(ss, segment) == IF segment \in DOMAIN ss THEN ss[segment] ELSE FALSE

\* for segment in pattern: if segment_states.get(segment, False): score += 1
RECURSIVE AddMatches(_, _, _, _)
AddMatches(pattern, i, ss, score) ==
    IF i > Len(pattern) THEN score
    ELSE AddMatches(pattern, i + 1, ss,
                    IF StateOf(ss, pattern[i]) THEN score + 2 ELSE score)

\* for segment, state in segment_states.items():
\*     if state and segment not in pattern: score -= 0.5
RECURSIVE PenalizeExtras(_, _, _, _)
PenalizeExtras(pattern, i, ss, score) ==
    IF i > Len(SegmentOrder) THEN score
    ELSE PenalizeExtras(pattern, i + 1, ss,
                        IF ss[SegmentOrder[i]] /\ SegmentOrder[i] \notin Range(pattern)
                        THEN score - 1 ELSE score)

\* the score of one digit's pattern, in half units
Score(d, ss) == PenalizeExtras(patterns[d], 1, ss, AddMatches(patterns[d], 1, ss, 0))

ScoreBeatsLoose(score, best_score) == score >= best_score

ScoreBeatsAnyPositive(score, best_score) == score > 0

\* if score > best_score
ScoreBeats(score, best_score) == score > best_score

\* best_digit = None; best_score = 0; for digit, pattern in patterns.items(): ...
RECURSIVE FindBest(_, _, _)
FindBest(ss, i, best) ==
    IF i > Len(PatternOrder) THEN best
    ELSE LET d == PatternOrder[i]
             score == Score(d, ss)
         IN  FindBest(ss, i + 1,
                      IF ScoreBeats(score, best.best_score)
                      THEN [best_digit |-> d, best_score |-> score]
                      ELSE best)

BestMatch(ss) == FindBest(ss, 1, [best_digit |-> None, best_score |-> 0])

MatchFoundLoose(best) == best.best_score >= 0

\* if best_digit is not None and best_score > 0
MatchFound(best) == best.best_digit # None /\ best.best_score > 0

TemplateConfidenceUncapped(best_score) ==
    Min(ConfUnit, (best_score * ConfUnit) \div (2 * 7))

\* confidence = min(0.5, best_score / 7)
TemplateConfidence(best_score) ==
    Min(ConfUnit \div 2, (best_score * ConfUnit) \div (2 * 7))

\* the dictionary template_matching_predict returns; ok = FALSE is the
\* except branch (preprocessing or slicing raised)
template_matching_predict(ok, ss) ==
    IF ~ok THEN [error |-> "exception"]
    ELSE LET best == BestMatch(ss)
         IN  IF MatchFound(best)
             THEN [method |-> "Template_Matching",
                   digit |-> best.best_digit,
                   confidence |-> TemplateConfidence(best.best_score),
                   is_confident |-> FALSE,
                   segment_states |-> ss]
             ELSE [method |-> "Template_Matching",
                   error |-> "No pattern match found"]

----------------------------------------------------------------------------
(* cnn_predict_digit and traditional_ocr_predict *)

\* What the loaded model answers: it raises, or gives one probability head
\* (digit = argmax, digit_conf = max probability), or two heads (the second
\* summarised by seg_conf = mean(|p - 0.5| + 0.5)).
CnnPredictions ==
    { [kind |-> "raise",  digit |-> 0, digit_conf |-> 0, seg_conf |-> 0],
      [kind |-> "single", digit |-> 3, digit_conf |-> ConfUnit \div 2, seg_conf |-> 0],
      [kind |-> "single", digit |-> 3, digit_conf |-> (6 * ConfUnit) \div 10, seg_conf |-> 0],
      [kind |-> "single", digit |-> 9, digit_conf |-> 20, seg_conf |-> 0],
      [kind |-> "dual",   digit |-> 8, digit_conf |-> ConfUnit, seg_conf |-> ConfUnit],
      [kind |-> "dual",   digit |-> 1, digit_conf |-> 10, seg_conf |-> 40] }

CombinedConfidenceUnweighted(digit_confidence, segment_confidence) ==
    digit_confidence + segment_confidence

\* combined_confidence = 0.7 * digit_confidence + 0.3 * segment_confidence
CombinedConfidence(digit_confidence, segment_confidence) ==
    (7 * digit_confidence + 3 * segment_confidence) \div 10

cnn_predict_digit(ok, pred) ==
    IF ~cnn_available THEN [error |-> "CNN model not available"]
    ELSE IF ~ok \/ pred.kind = "raise" THEN [error |-> "exception"]
    ELSE IF pred.kind = "dual"
    THEN LET combined_confidence == CombinedConfidence(pred.digit_conf, pred.seg_conf)
         IN  [method |-> "CNN_v3",
              digit |-> pred.digit,
              confidence |-> combined_confidence,
              digit_confidence |-> pred.digit_conf,
              segment_confidence |-> pred.seg_conf,
              is_confident |-> combined_confidence >= confidence_threshold]
    ELSE [method |-> "CNN_v2",
          digit |-> pred.digit,
          confidence |-> pred.digit_conf,
          is_confident |-> pred.digit_conf >= confidence_threshold]

\* the stripped text tesseract returns, as a sequence of characters
Texts == { <<>>, <<"5">>, <<"1", "2">>, <<"x">> }

DigitChars ==
    "0" :> 0 @@ "1" :> 1 @@ "2" :> 2 @@ "3" :> 3 @@ "4" :> 4 @@
    "5" :> 5 @@ "6" :> 6 @@ "7" :> 7 @@ "8" :> 8 @@ "9" :> 9

\* text.isdigit(): non-empty and every character a digit
IsDigit(t) == Len(t) > 0 /\ \A i \in 1..Len(t) : t[i] \in DOMAIN DigitChars

TraditionalConfidenceHalf == ConfUnit \div 2

\* confidence = 0.6
TraditionalConfidence == (6 * ConfUnit) \div 10

traditional_ocr_predict(ok, t) ==
    IF ~tesseract_available THEN [error |-> "Traditional OCR not available"]
    ELSE IF ~ok THEN [error |-> "exception"]
    ELSE IF IsDigit(t) /\ Len(t) = 1
    THEN [method |-> "Traditional_OCR",
          digit |-> DigitChars[t[1]],
          confidence |-> TraditionalConfidence,
          is_confident |-> TraditionalConfidence >= confidence_threshold,
          raw_text |-> t]
    ELSE [method |-> "Traditional_OCR", error |-> "Invalid OCR result", raw_text |-> t]

----------------------------------------------------------------------------
(* predict_digit *)

MethodNames == {"cnn", "traditional", "template", "easyocr"}

RECURSIVE SeqsUpTo(_, _)
SeqsUpTo(S, n) ==
    IF n = 0 THEN {<<>>}
    ELSE LET shorter == SeqsUpTo(S, n - 1)
         IN  shorter \cup {Append(q, x) : q \in {r \in shorter : Len(r) = n - 1}, x \in S}

MethodLists == SeqsUpTo(MethodNames, MaxMethods)

DefaultMethods == <<"cnn", "traditional", "template">>

\* if methods is None: methods = ['cnn', 'traditional', 'template']
Defaulted(given, m) == IF given THEN m ELSE DefaultMethods

DispatchAnyway(method, ok, ss, pred, t) ==
    IF method = "cnn"
    THEN [called |-> TRUE, result |-> cnn_predict_digit(ok, pred)]
    ELSE IF method = "traditional"
    THEN [called |-> TRUE, result |-> traditional_ocr_predict(ok, t)]
    ELSE IF method = "template"
    THEN [called |-> TRUE, result |-> template_matching_predict(ok, ss)]
    ELSE [called |-> FALSE, result |-> [error |-> "not called"]]

\* one pass of the loop body: the branch taken for `method`, if any
Dispatch(method, ok, ss, pred, t) ==
    IF method = "cnn" /\ cnn_available
    THEN [called |-> TRUE, result |-> cnn_predict_digit(ok, pred)]
    ELSE IF method = "traditional" /\ tesseract_available
    THEN [called |-> TRUE, result |-> traditional_ocr_predict(ok, t)]
    ELSE IF method = "template"
    THEN [called |-> TRUE, result |-> template_matching_predict(ok, ss)]
    ELSE [called |-> FALSE, result |-> [error |-> "not called"]]

\* for method in methods: ...; if 'digit' in result: results.append(result)
\* acc.invoked records every call the loop made, acc.results is `results`
RECURSIVE RunMethods(_, _, _, _, _, _, _)
RunMethods(ms, i, ok, ss, pred, t, acc) ==
    IF i > Len(ms) THEN acc
    ELSE LET step == Dispatch(ms[i], ok, ss, pred, t)
         IN  RunMethods(ms, i + 1, ok, ss, pred, t,
                 IF ~step.called THEN acc
                 ELSE [invoked |-> Append(acc.invoked,
                                          [method |-> ms[i], result |-> step.result]),
                       results |-> IF Has(step.result, "digit")
                                   THEN Append(acc.results, step.result)
                                   ELSE acc.results])

\* x.get('confidence', 0)
ConfidenceKey(x) == IF Has(x, "confidence") THEN x.confidence ELSE 0

BestResultLast(rs) ==
    LET top == CHOOSE c \in {ConfidenceKey(rs[i]) : i \in 1..Len(rs)} :
                   \A j \in 1..Len(rs) : ConfidenceKey(rs[j]) <= c
        k == CHOOSE i \in 1..Len(rs) :
                 /\ ConfidenceKey(rs[i]) = top
                 /\ \A j \in 1..Len(rs) : ConfidenceKey(rs[j]) = top => j <= i
    IN  rs[k]

BestResultFirstListed(rs) == rs[1]

\* max(results, key=...): the first element, in list order, with the largest key
RECURSIVE MaxByConfidence(_, _, _)
MaxByConfidence(rs, i, best) ==
    IF i > Len(rs) THEN best
    ELSE MaxByConfidence(rs, i + 1,
                         IF ConfidenceKey(rs[i]) > ConfidenceKey(best) THEN rs[i] ELSE best)

BestResult(rs) == MaxByConfidence(rs, 2, rs[1])

AllMethodsFailedBare(ms) == [error |-> "All methods failed"]

\* return {'error': 'All methods failed', 'methods_tried': methods}
AllMethodsFailed(ms) == [error |-> "All methods failed", methods_tried |-> ms]

predict_digit_returnWinnerOnly(ms, rs) ==
    IF Len(rs) > 0
    THEN [all_methods |-> <<BestResult(rs)>>] @@ BestResult(rs)
    ELSE AllMethodsFailed(ms)

predict_digit_returnRetagged(ms, rs) ==
    IF Len(rs) > 0
    THEN [all_methods |-> rs, method |-> "Best"] @@ BestResult(rs)
    ELSE AllMethodsFailed(ms)

\* best_result['all_methods'] = results; return best_result
\* (all_methods refers to the list that holds best_result itself; the list is
\* written out here with its elements as the methods constructed them)
predict_digit_return(ms, rs) ==
    IF Len(rs) > 0
    THEN [all_methods |-> rs] @@ BestResult(rs)
    ELSE AllMethodsFailed(ms)

\* the position in results of the object max() returned: the first element
\* equal to it (an earlier equal element would have been the maximum)
BestIndex(rs) ==
    CHOOSE i \in 1..Len(rs) :
        /\ rs[i] = BestResult(rs)
        /\ \A j \in 1..(i - 1) : rs[j] # BestResult(rs)

\* the objects in `results` once predict_digit has returned: best_result is
\* one of them, so the assignment to best_result['all_methods'] shows in it
ResultsAfterReturn(ms, rs) ==
    [i \in 1..Len(rs) |->
        IF i = BestIndex(rs) THEN predict_digit_return(ms, rs) ELSE rs[i]]

----------------------------------------------------------------------------
(* SevenSegmentGenerator.add_realistic_effects: the six stages.            *)
(* Random draws are integers in the unit named with each set; a stage's    *)
(* float result is kept as an exact fraction n/d until it is clipped and   *)
(* cast.                                                                   *)

\* random.randint(a, b): a..b, and ValueError (no value) when a > b
RandInt(a, b) == a..b

\* the two ends of random.randint(a, b), for draws with a wide range
RandIntEnds(a, b) == IF a > b THEN {} ELSE {a, b}

ToUint8NoClip(n, d) == n \div d

\* np.clip(n/d, 0, 255).astype(np.uint8)
ToUint8(n, d) ==
    IF n < 0 THEN 0 ELSE IF n > 255 * d THEN 255 ELSE n \div d

\* the calls add_realistic_effects makes, in order
Pipeline ==
    <<"_reduce_contrast", "_add_reflections", "_add_smudges", "_add_dust",
      "_add_noise", "_vary_lighting">>

\* 'effects_applied' of generate_sample's metadata
EffectsApplied ==
    <<"low_contrast", "reflections", "smudges", "dust", "noise",
      "lighting_variation">>

\* random.uniform(0.3, 0.7) and random.uniform(0.1, 0.3), in tenths
ContrastFactors == {3, 5, 7}

LighteningDeltas == {1, 2, 3}

_reduce_contrastMaskAfter(image, contrast_factor, delta) ==
    [p \in DOMAIN image |->
        ToUint8(2550 + contrast_factor * (2 * image[p] - 255)
                     + (IF 2550 + contrast_factor * (2 * image[p] - 255) < 2000
                        THEN 510 * delta ELSE 0), 20)]

\* img_float = 0.5 + contrast_factor * (img/255 - 0.5);
\* mask = np.all(img < 100, axis=2); img_float[mask] += delta; times 255
\* (as a fraction over 20)
_reduce_contrast(image, contrast_factor, delta) ==
    [p \in DOMAIN image |->
        ToUint8(2550 + contrast_factor * (2 * image[p] - 255)
                     + (IF image[p] < 100 THEN 510 * delta ELSE 0), 20)]

\* random.uniform(0.2, 0.6) in tenths; fade = max(0, 1 - distance/radius)
\* at a pixel, in halves
Intensities == {2, 6}

Fades == {0, 1, 2}

\* img + overlay * 255, overlay = intensity * fade (as a fraction over 20)
AddReflection(image, intensity, fade) ==
    [p \in DOMAIN image |-> ToUint8(20 * image[p] + 255 * intensity * fade[p], 20)]

\* random.uniform(0.05, 0.15) in hundredths; the blurred mask at a pixel
SmudgeIntensities == {5, 15}

MaskValues == {0, 255}

\* img - (mask / 255.0) * smudge_intensity * 255 (as a fraction over 100)
AddSmudge(image, smudge_intensity, mask) ==
    [p \in DOMAIN image |-> ToUint8(100 * image[p] - mask[p] * smudge_intensity, 100)]

\* num_particles = random.randint(10, 30): the two ends
ParticleCounts == RandIntEnds(10, 30)

\* x = random.randint(0, w-1) (and y likewise with h): the two ends
DustX(w) == RandIntEnds(0, w - 1)

\* color = random.randint(60, 180): the two ends
DustColors == RandIntEnds(60, 180)

\* img[y, x] = color, or cv2.circle(img, (x, y), size, color, -1): the
\* pixels the particle covers take its colour
AddParticle(image, color, covered) ==
    [p \in DOMAIN image |-> IF covered[p] THEN color ELSE image[p]]

\* a sample of np.random.normal(0, sigma) at a pixel, sigma in [2, 8]
NoiseValues == {-300, -3, 0, 300}

\* img.astype(np.float32) + noise
_add_noise(image, noise) ==
    [p \in DOMAIN image |-> ToUint8(image[p] + noise[p], 1)]

\* random.choice(['left', 'right', 'top', 'bottom', 'center'])
LightingChoices == <<"left", "right", "top", "bottom", "center">>

LightingTypes == Range(LightingChoices)

\* the lighting factor at a pixel, in tenths: np.linspace(0.8, 1.2) or
\* 1.3 - 0.5 * (distance / max_distance)
LightingFactors(lighting_type) ==
    IF lighting_type = "center" THEN {8, 13} ELSE {8, 10, 12}

\* img_float *= lighting
_vary_lighting(image, lighting) ==
    [p \in DOMAIN image |-> ToUint8(image[p] * lighting[p], 10)]

----------------------------------------------------------------------------
(* EnhancedSevenSegmentCNN_2K_V3: the segment pseudo-labels.               *)
(* A binary image is followed by its shape and, for each ROI, the number   *)
(* of ones inside the ROI; a mean is the fraction num/den.                 *)

ROINames == {"A", "B", "C", "D", "E", "F", "G"}

\* roi_mean(y0, y1, x0, x1) of each segment, in hundredths
ROIs ==
    "A" :> [y0 |-> 8,  y1 |-> 18, x0 |-> 22, x1 |-> 78] @@
    "B" :> [y0 |-> 18, y1 |-> 45, x0 |-> 75, x1 |-> 90] @@
    "C" :> [y0 |-> 55, y1 |-> 85, x0 |-> 75, x1 |-> 90] @@
    "D" :> [y0 |-> 82, y1 |-> 92, x0 |-> 22, x1 |-> 78] @@
    "E" :> [y0 |-> 55, y1 |-> 85, x0 |-> 10, x1 |-> 25] @@
    "F" :> [y0 |-> 18, y1 |-> 45, x0 |-> 10, x1 |-> 25] @@
    "G" :> [y0 |-> 45, y1 |-> 57, x0 |-> 22, x1 |-> 78]

\* int(H * y0): truncation of the product
Trunc(n, hundredths) == (n * hundredths) \div 100

\* patch = bin_img[y0i:y1i, x0i:x1i]; patch.size
PatchSize(H, W, roi) ==
    Max(0, Trunc(H, roi.y1) - Trunc(H, roi.y0))
        * Max(0, Trunc(W, roi.x1) - Trunc(W, roi.x0))

\* if patch.size == 0: return 0.0; return float(patch.mean())
roi_mean(H, W, roi, ones) ==
    IF PatchSize(H, W, roi) = 0
    THEN [num |-> 0, den |-> 1]
    ELSE [num |-> ones, den |-> PatchSize(H, W, roi)]

ExceedsOrEquals(mean) == 10 * mean.num >= 4 * mean.den

\* vec > 0.4
Exceeds(mean) == 10 * mean.num > 4 * mean.den

\* [A, B, C, D, E, F, G] of the means
Means(b) == [r \in ROINames |-> roi_mean(b.H, b.W, ROIs[r], b.ones[r])]

\* (vec > 0.4).astype(np.float32)
_compute_segments_from_binary(b) ==
    [r \in ROINames |-> IF Exceeds(Means(b)[r]) THEN 1 ELSE 0]

\* input_shape[:2] of the model
InputSize == 224

\* the ROI that sits on each segment of the generator's drawing
SegmentOfROI ==
    "A" :> "a" @@ "B" :> "b" @@ "C" :> "c" @@ "D" :> "d" @@
    "E" :> "e" @@ "F" :> "f" @@ "G" :> "g"

\* cv2.adaptiveThreshold(src, 255, ADAPTIVE_THRESH_GAUSSIAN_C,
\* cv2.THRESH_BINARY, 11, 2) at one pixel: 255 if src > local mean - 2
AdaptiveThreshold(src, local_mean) == IF src > local_mean - 2 THEN 255 ELSE 0

\* ch1 = (bin_r > 127)
Ch1(binary) == IF binary > 127 THEN 1 ELSE 0

\* the grey level CLAHE and the blur leave on a region of one colour
GrayLevels == {0, 40, 220, 255}

\* the ROIs that lie on a drawn segment of the image
DrawnROIs(image) == {r \in ROINames : image[SegmentOfROI[r]] # Background}

\* the ones of ch1 inside an ROI of n pixels: where the rendering has one
\* colour throughout, every pixel equals its local mean (grey level u);
\* where a segment is drawn, the edges decide: all ones (r in white) or none
OnesInROI(image, r, n, u, white) ==
    IF r \notin DrawnROIs(image)
    THEN n * Ch1(AdaptiveThreshold(u, u))
    ELSE IF r \in white THEN n ELSE 0

----------------------------------------------------------------------------
(* Inputs *)

\* every outcome of the white-ratio test over the seven regions
AllVectors == [SegmentNames -> BOOLEAN]

VectorOf(pattern) == [s \in SegmentNames |-> s \in Range(pattern)]

AllOff == [s \in SegmentNames |-> FALSE]

\* the images predict_digit is tried on: a blank one and one per digit shape
PredictVectors == {AllOff} \cup {VectorOf(patterns[d]) : d \in DOMAIN patterns}

NoPrediction == [kind |-> "raise", digit |-> 0, digit_conf |-> 0, seg_conf |-> 0]

NoResult == [error |-> "none"]

\* no binary image is held
NoBinary == [H |-> 0, W |-> 0]

\* no image is held
NoImage == [p \in {} |-> 0]

NoParticle == [x |-> 0, y |-> 0, color |-> 0]

NoMetadata == [digit |-> ""]

\* no run of generate_sample is under way, none has returned yet
NoRun == [py0 |-> 0, np0 |-> 0]

NoPrevRun == [out |-> NoImage]

\* the sample points and digits generate_sample is followed on, and the
\* canvas sizes the generator is built with (the default and two small ones)
GenSamples == {{"g"}, {"none"}}

GenDigits == {"8", "x"}

\* the digits of the runs whose draws come from the generator states
RngDigits == {"8", "1"}

Sizes == {<<200, 300>>, <<49, 300>>, <<200, 49>>}

----------------------------------------------------------------------------
(* HumidityAppOCRManager and the reading methods of ProductionOCR *)

\* no path: model_path is None
NoPath == ""

\* self.model_paths, in the order the constructor walks them
model_paths ==
    <<"seven_segment_2k_enhanced_model.keras",
      "seven_segment_2k_final.keras",
      "seven_segment_enhanced_model.keras",
      "seven_segment_enhanced_final.keras",
      "seven_segment_cnn_final.keras",
      "seven_segment_best_model.keras">>

\* the models ProductionOCR() looks for when it is given no path
v3_model_path == "seven_segment_2k_enhanced_v3_model.keras"

v2_model_path == "seven_segment_2k_enhanced_v2_model.keras"

ModelFiles == Range(model_paths) \cup {v3_model_path, v2_model_path}

\* a file is not there, is there and fails in load_model, or is there and loads
FileStates == {"missing", "broken", "good"}

NoFiles == [p \in ModelFiles |-> "missing"]

\* os.path.exists(path), for a path that is not None
Exists(fs, path) == path \in DOMAIN fs /\ fs[path] # "missing"

\* if model_path is None: the v3 model if it exists, else the v2 model if it
\* exists, else still None
AutoDetect(path, fs) ==
    IF path # NoPath THEN path
    ELSE IF Exists(fs, v3_model_path) THEN v3_model_path
    ELSE IF Exists(fs, v2_model_path) THEN v2_model_path
    ELSE NoPath

\* ProductionOCR.__init__(model_path): the load is tried when the path
\* exists; a load that fails is caught and logged inside the constructor,
\* which therefore never raises
ProductionOCRInit(path, fs) ==
    LET p == AutoDetect(path, fs)
        loaded == Exists(fs, p) /\ fs[p] = "good"
    IN  [cnn_available |-> loaded,
         model_path |-> IF loaded THEN p ELSE NoPath,
         raised |-> FALSE]

\* for model_path in self.model_paths: if os.path.exists(model_path):
\*     try: self.ocr = ProductionOCR(model_path); break
\*     except Exception: (next path)
RECURSIVE ManagerWalk(_, _, _)
ManagerWalk(i, fs, tried) ==
    IF i > Len(model_paths) THEN [ocr |-> "None", constructed |-> tried]
    ELSE IF Exists(fs, model_paths[i])
    THEN LET made == ProductionOCRInit(model_paths[i], fs)
         IN  IF made.raised
             THEN ManagerWalk(i + 1, fs, Append(tried, model_paths[i]))
             ELSE [ocr |-> "ProductionOCR",
                   constructed |-> Append(tried, model_paths[i]),
                   state |-> made]
    ELSE ManagerWalk(i + 1, fs, tried)

\* HumidityAppOCRManager.__init__: the walk, then
\* if self.ocr is None: self.ocr = ProductionOCR()
ManagerInit(fs) ==
    LET walked == ManagerWalk(1, fs, <<>>)
    IN  IF walked.ocr = "None"
        THEN [ocr |-> "ProductionOCR",
              constructed |-> Append(walked.constructed, NoPath),
              state |-> ProductionOCRInit(NoPath, fs)]
        ELSE walked

\* result.get(key, default)
Get(r, k, default) == IF Has(r, k) THEN r[k] ELSE default

\* the three dictionaries a reading method returns, for the key it reports
\* the value under
ValidReading(key, result) ==
    (key :> result.digit) @@
    [confidence |-> Get(result, "confidence", 0),
     method |-> Get(result, "method", "unknown"),
     is_confident |-> Get(result, "is_confident", FALSE),
     valid |-> TRUE]

OutOfRangeReading(key, result) ==
    (key :> result.digit) @@
    [confidence |-> Get(result, "confidence", 0),
     method |-> Get(result, "method", "unknown"),
     is_confident |-> FALSE,
     valid |-> FALSE,
     error |-> "out of range"]

FailedReading(key, result) ==
    (key :> None) @@
    [confidence |-> 0,
     valid |-> FALSE,
     error |-> Get(result, "error", "Recognition failed")]

\* process_humidity_reading, from the result of predict_digit(image) on
HumidityReading(result) ==
    IF Has(result, "digit")
    THEN IF 0 <= result.digit /\ result.digit <= 100
         THEN ValidReading("humidity", result)
         ELSE OutOfRangeReading("humidity", result)
    ELSE FailedReading("humidity", result)

\* process_temperature_reading, from the result of predict_digit(image) on
TemperatureReading(result) ==
    IF Has(result, "digit")
    THEN IF -40 <= result.digit /\ result.digit <= 80
         THEN ValidReading("temperature", result)
         ELSE OutOfRangeReading("temperature", result)
    ELSE FailedReading("temperature", result)

suggested_typeOfSmall(value) == IF value <= 5 THEN "humidity" ELSE "either"

\* 'humidity' if value <= 50 else 'either'
suggested_type(value) == IF value <= 50 THEN "humidity" ELSE "either"

\* process_display_reading in its last branch, from digit_result on
AutoReading(digit_result) ==
    IF Has(digit_result, "digit")
    THEN IF 0 <= digit_result.digit /\ digit_result.digit <= 100
         THEN ValidReading("value", digit_result)
              @@ [suggested_type |-> suggested_type(digit_result.digit)]
         ELSE OutOfRangeReading("value", digit_result)
    ELSE FailedReading("value", digit_result)

\* process_display_reading(image, reading_type), from predict_digit's result
DisplayReading(type, result) ==
    IF type = "humidity" THEN HumidityReading(result)
    ELSE IF type = "temperature" THEN TemperatureReading(result)
    ELSE AutoReading(result)

\* the reading types process_display_reading is called with
ReadingTypes == {"auto", "humidity", "temperature"}

----------------------------------------------------------------------------
(* Values of the fields that hold nothing *)

\* for digit in '0123456789'
DatasetDigits == <<"0", "1", "2", "3", "4", "5", "6", "7", "8", "9">>

\* no file name has been read
NoParse == [accepted |-> FALSE, label |-> None]

\* no summary has been written
NoSummary == [total_samples |-> None]

\* no manager, no reading, no sequence, no file name and no dataset yet
ExtInit ==
    /\ files = NoFiles
    /\ ocr = "None"
    /\ model_path = NoPath
    /\ constructed = <<>>
    /\ reading_type = ""
    /\ prediction = NoResult
    /\ model = "None"
    /\ images = <<>>
    /\ raised = ""
    /\ filename = <<>>
    /\ index = 0
    /\ parsed = NoParse
    /\ samples_per_digit = 0
    /\ all_metadata = <<>>
    /\ sample_count = 0
    /\ summary = NoSummary
    /\ ds_pc = 0

----------------------------------------------------------------------------
(* State machine: one call at a time on one ProductionOCR object *)

Init ==
    /\ cnn_available \in BOOLEAN
    /\ tesseract_available \in BOOLEAN
    /\ op = "idle"
    /\ methods = <<>>
    /\ imageOk = TRUE
    /\ segment_states = AllOff
    /\ cnnPred = NoPrediction
    /\ text = <<>>
    /\ invoked = <<>>
    /\ results = <<>>
    /\ ret = NoResult
    /\ digit = ""
    /\ active_segments = <<>>
    /\ width = 200
    /\ height = 300
    /\ clean_img = NoImage
    /\ img = NoImage
    /\ result_buf = "none"
    /\ gen_pc = 0
    /\ iter = 0
    /\ count = 0
    /\ applied = <<>>
    /\ particle = NoParticle
    /\ metadata = NoMetadata
    /\ gen_error = ""
    /\ bin_img = NoBinary
    /\ roi_means = <<>>
    /\ seg_vec = <<>>
    /\ py_state = 0
    /\ np_state = 0
    /\ cur_run = NoRun
    /\ prev_run = NoPrevRun
    /\ ExtInit

\* ProductionOCR.template_matching_predict(image)
TemplateMatchingPredict ==
    /\ op = "idle"
    /\ \E ok \in BOOLEAN, ss \in AllVectors :
          /\ imageOk' = ok
          /\ segment_states' = ss
          /\ ret' = template_matching_predict(ok, ss)
    /\ op' = "template_matching_predict"
    /\ UNCHANGED <<cnn_available, tesseract_available, methods, cnnPred, text,
                   invoked, results, digit, active_segments, genvars, estvars, rngvars,
                   extvars>>

\* ProductionOCR.predict_digit(image, methods)
PredictDigit ==
    /\ op = "idle"
    /\ \E given \in BOOLEAN, m \in MethodLists, ok \in BOOLEAN,
          ss \in PredictVectors, pred \in CnnPredictions, t \in Texts :
          /\ given \/ m = <<>>
          /\ LET ms == Defaulted(given, m)
                 run == RunMethods(ms, 1, ok, ss, pred, t,
                                   [invoked |-> <<>>, results |-> <<>>])
             IN  /\ methods' = ms
                 /\ imageOk' = ok
                 /\ segment_states' = ss
                 /\ cnnPred' = pred
                 /\ text' = t
                 /\ invoked' = run.invoked
                 /\ results' = ResultsAfterReturn(ms, run.results)
                 /\ ret' = predict_digit_return(ms, run.results)
    /\ op' = "predict_digit"
    /\ UNCHANGED <<cnn_available, tesseract_available, digit, active_segments,
                   genvars, estvars, rngvars, extvars>>

\* SevenSegmentGenerator.create_clean_digit(digit)
CreateCleanDigit ==
    /\ op = "idle"
    /\ \E d \in DigitKeys :
          /\ digit' = d
          /\ active_segments' = GetActiveSegments(d)
          /\ clean_img' = create_clean_digit(d, SamplePoints)
    /\ op' = "create_clean_digit"
    /\ UNCHANGED <<ocrvars, extvars, estvars, rngvars, width, height, img, result_buf, gen_pc, iter, count, applied,
                   particle, metadata, gen_error>>

\* every field a call has set goes back to its value between calls
Reset ==
    /\ op' = "idle"
    /\ methods' = <<>>
    /\ imageOk' = TRUE
    /\ segment_states' = AllOff
    /\ cnnPred' = NoPrediction
    /\ text' = <<>>
    /\ invoked' = <<>>
    /\ results' = <<>>
    /\ ret' = NoResult
    /\ digit' = ""
    /\ active_segments' = <<>>
    /\ clean_img' = NoImage
    /\ img' = NoImage
    /\ result_buf' = "none"
    /\ gen_pc' = 0
    /\ iter' = 0
    /\ count' = 0
    /\ applied' = <<>>
    /\ particle' = NoParticle
    /\ metadata' = NoMetadata
    /\ gen_error' = ""
    /\ bin_img' = NoBinary
    /\ roi_means' = <<>>
    /\ seg_vec' = <<>>
    /\ cur_run' = NoRun
    /\ files' = NoFiles
    /\ ocr' = "None"
    /\ model_path' = NoPath
    /\ constructed' = <<>>
    /\ reading_type' = ""
    /\ prediction' = NoResult
    /\ images' = <<>>
    /\ raised' = ""
    /\ filename' = <<>>
    /\ index' = 0
    /\ parsed' = NoParse
    /\ samples_per_digit' = 0
    /\ all_metadata' = <<>>
    /\ sample_count' = 0
    /\ summary' = NoSummary
    /\ ds_pc' = 0
    /\ UNCHANGED <<cnn_available, tesseract_available, width, height, model>>

\* the caller takes the result; the object is ready for the next call
\* (generate_sample and generate_dataset end by their return or an exception)
Return ==
    /\ op # "idle"
    /\ op = "generate_sample" => gen_pc \in {0, Len(Pipeline) + 1}
    /\ op = "generate_dataset" => (ds_pc = Len(DatasetDigits) + 2 \/ raised # "")
    /\ Reset
    /\ UNCHANGED <<py_state, np_state, prev_run>>

Next ==
    \/ TemplateMatchingPredict
    \/ PredictDigit
    \/ CreateCleanDigit
    \/ Return

Spec == Init /\ [][Next]_vars

----------------------------------------------------------------------------
(* State machine of SevenSegmentGenerator.generate_sample: the clean image, *)
(* then the stages of add_realistic_effects one after the other; a stage   *)
(* with a loop takes one step per pass.                                    *)

GenInit ==
    /\ cnn_available = FALSE
    /\ tesseract_available = FALSE
    /\ op = "idle"
    /\ methods = <<>>
    /\ imageOk = TRUE
    /\ segment_states = AllOff
    /\ cnnPred = NoPrediction
    /\ text = <<>>
    /\ invoked = <<>>
    /\ results = <<>>
    /\ ret = NoResult
    /\ digit = ""
    /\ active_segments = <<>>
    /\ \E size \in Sizes : width = size[1] /\ height = size[2]
    /\ clean_img = NoImage
    /\ img = NoImage
    /\ result_buf = "none"
    /\ gen_pc = 0
    /\ iter = 0
    /\ count = 0
    /\ applied = <<>>
    /\ particle = NoParticle
    /\ metadata = NoMetadata
    /\ gen_error = ""
    /\ bin_img = NoBinary
    /\ roi_means = <<>>
    /\ seg_vec = <<>>
    /\ py_state = 0
    /\ np_state = 0
    /\ cur_run = NoRun
    /\ prev_run = NoPrevRun
    /\ ExtInit

\* metadata = {'digit': digit, 'width': ..., 'height': ..., 'effects_applied': [...]}
Metadata ==
    [digit |-> digit, width |-> width, height |-> height,
     effects_applied |-> EffectsApplied]

StartImageReused(clean, last) ==
    IF DOMAIN last = DOMAIN clean THEN last ELSE clean

\* result = img.copy(): the stages work on a fresh copy of the clean image,
\* whatever buffer the last run left
StartImage(clean, last) == clean

\* img.copy(), np.clip(...).astype(np.uint8): a new array, whatever the source
Copy(buffer) == "new"

DustTargetClean(buffer) == "clean_img"

\* img[y, x] = ..., cv2.circle(img, ...): the write goes to the argument
DustTarget(buffer) == buffer

\* clean_img = self.create_clean_digit(digit); result = img.copy()
GenerateSampleOf(d, pts) ==
    /\ op = "idle"
    /\ digit' = d
    /\ active_segments' = GetActiveSegments(d)
    /\ clean_img' = create_clean_digit(d, pts)
    /\ img' = StartImage(create_clean_digit(d, pts), prev_run.out)
    /\ result_buf' = Copy("clean_img")
    /\ op' = "generate_sample"
    /\ gen_pc' = 1
    /\ cur_run' = [py0 |-> py_state, np0 |-> np_state]
    /\ UNCHANGED <<ocrvars, extvars, estvars, width, height, iter, count, applied,
                   particle, metadata, gen_error, py_state, np_state, prev_run>>

Running(stage) ==
    /\ op = "generate_sample"
    /\ gen_pc \in 1..Len(Pipeline)
    /\ Pipeline[gen_pc] = stage

\* the stage returns: the next call of add_realistic_effects, or after the
\* last one the return of generate_sample with its metadata
StageReturns(stage) ==
    /\ gen_pc' = gen_pc + 1
    /\ iter' = 0
    /\ count' = 0
    /\ applied' = Append(applied, stage)
    /\ metadata' = IF gen_pc = Len(Pipeline) THEN Metadata ELSE metadata

\* one more pass of the stage's loop, which makes n passes in all
LoopPass(stage, n) ==
    IF iter + 1 >= n
    THEN StageReturns(stage)
    ELSE /\ iter' = iter + 1
         /\ count' = n
         /\ UNCHANGED <<gen_pc, applied, metadata>>

\* the exception leaves add_realistic_effects and generate_sample
Raises(error) ==
    /\ gen_pc' = 0
    /\ gen_error' = error
    /\ UNCHANGED <<img, result_buf, iter, count, applied, metadata>>

\* _reduce_contrast with its two draws
ReduceContrastWith(contrast_factor, delta) ==
    /\ Running("_reduce_contrast")
    /\ img' = _reduce_contrast(img, contrast_factor, delta)
    /\ result_buf' = Copy(result_buf)
    /\ StageReturns("_reduce_contrast")
    /\ UNCHANGED <<ocrvars, extvars, estvars, op, digit, active_segments, width, height,
                   clean_img, particle, gen_error>>

\* one pass of for _ in range(random.randint(1, 3)): one overlay
AddReflectionsWith(n, intensity, fade) ==
    /\ Running("_add_reflections")
    /\ img' = AddReflection(img, intensity, fade)
    /\ result_buf' = Copy(result_buf)
    /\ LoopPass("_add_reflections", n)
    /\ UNCHANGED <<ocrvars, extvars, estvars, op, digit, active_segments, width, height,
                   clean_img, particle, gen_error>>

\* x = random.randint(0, w - 50); y = random.randint(0, h - 50)
SmudgeFits == RandInt(0, width - 50) # {} /\ RandInt(0, height - 50) # {}

\* one pass of for _ in range(random.randint(2, 5)): one smudge, or the
\* ValueError of random.randint
AddSmudgesWith(n, smudge_intensity, mask) ==
    /\ Running("_add_smudges")
    /\ IF ~SmudgeFits
       THEN Raises("ValueError")
       ELSE /\ img' = AddSmudge(img, smudge_intensity, mask)
            /\ result_buf' = Copy(result_buf)
            /\ LoopPass("_add_smudges", n)
            /\ gen_error' = gen_error
    /\ UNCHANGED <<ocrvars, extvars, estvars, op, digit, active_segments, width, height,
                   clean_img, particle>>

\* one pass of for _ in range(num_particles): one particle
AddDustWith(n, x, y, color, covered) ==
    /\ Running("_add_dust")
    /\ particle' = [x |-> x, y |-> y, color |-> color]
    /\ img' = AddParticle(img, color, covered)
    /\ clean_img' = IF DustTarget(result_buf) = "clean_img"
                    THEN AddParticle(clean_img, color, covered)
                    ELSE clean_img
    /\ result_buf' = result_buf
    /\ LoopPass("_add_dust", n)
    /\ UNCHANGED <<ocrvars, extvars, estvars, op, digit, active_segments, width, height,
                   gen_error>>

AddNoiseWith(noise) ==
    /\ Running("_add_noise")
    /\ img' = _add_noise(img, noise)
    /\ result_buf' = Copy(result_buf)
    /\ StageReturns("_add_noise")
    /\ UNCHANGED <<ocrvars, extvars, estvars, op, digit, active_segments, width, height,
                   clean_img, particle, gen_error>>

VaryLightingWith(lighting) ==
    /\ Running("_vary_lighting")
    /\ img' = _vary_lighting(img, lighting)
    /\ result_buf' = Copy(result_buf)
    /\ StageReturns("_vary_lighting")
    /\ UNCHANGED <<ocrvars, extvars, estvars, op, digit, active_segments, width, height,
                   clean_img, particle, gen_error>>

\* the passes a loop makes: drawn on its first pass
Passes(drawn) == IF iter = 0 THEN drawn ELSE {count}

(* The draws as free choices: every value each draw can give *)

GenerateSample ==
    \E d \in GenDigits, pts \in GenSamples : GenerateSampleOf(d, pts)

ReduceContrast ==
    /\ \E contrast_factor \in ContrastFactors, delta \in LighteningDeltas :
          ReduceContrastWith(contrast_factor, delta)
    /\ UNCHANGED rngvars

AddReflections ==
    /\ \E n \in Passes(RandInt(1, 3)), intensity \in Intensities,
          fade \in [DOMAIN img -> Fades] :
          AddReflectionsWith(n, intensity, fade)
    /\ UNCHANGED rngvars

AddSmudges ==
    /\ \E n \in Passes(RandInt(2, 5)), smudge_intensity \in SmudgeIntensities,
          mask \in [DOMAIN img -> MaskValues] :
          AddSmudgesWith(n, smudge_intensity, mask)
    /\ UNCHANGED rngvars

AddDust ==
    /\ \E n \in Passes(ParticleCounts), x \in DustX(width), y \in DustX(height),
          color \in DustColors, covered \in [DOMAIN img -> BOOLEAN] :
          AddDustWith(n, x, y, color, covered)
    /\ UNCHANGED rngvars

AddNoise ==
    /\ \E noise \in [DOMAIN img -> NoiseValues] : AddNoiseWith(noise)
    /\ UNCHANGED rngvars

VaryLighting ==
    /\ \E lighting_type \in LightingTypes :
          \E lighting \in [DOMAIN img -> LightingFactors(lighting_type)] :
              VaryLightingWith(lighting)
    /\ UNCHANGED rngvars

GenNext ==
    \/ GenerateSample
    \/ ReduceContrast
    \/ AddReflections
    \/ AddSmudges
    \/ AddDust
    \/ AddNoise
    \/ VaryLighting
    \/ Return

GenSpec == GenInit /\ [][GenNext]_vars

----------------------------------------------------------------------------
(* The draws as the module-level generators give them: `random` and        *)
(* np.random are deterministic, the value of a draw is fixed by the state  *)
(* the generator is in, and every draw moves the generator on. A state is  *)
(* a position in a stream of period StreamPeriod.                          *)

RECURSIVE Nth(_, _)
Nth(S, i) ==
    LET least == CHOOSE m \in S : \A x \in S : m <= x
    IN  IF i = 0 THEN least ELSE Nth(S \ {least}, i - 1)

\* the value the stream has at a position, for a draw from the set S
Pick(S, position) == Nth(S, position % Cardinality(S))

\* the generator state after k more draws
Advance(state, k) == (state + k) % StreamPeriod

\* the k-th next draw from `random`
Draw(S, k) == Pick(S, Advance(py_state, k))

\* the call has made py draws from `random` and np from np.random
Consumes(py, np) ==
    /\ py_state' = Advance(py_state, py)
    /\ np_state' = Advance(np_state, np)
    /\ UNCHANGED <<cur_run, prev_run>>

\* range(random.randint(..)) is drawn before the first pass
CountDraws == IF iter = 0 THEN 1 ELSE 0

\* the lighting factor at the middle of the image, in tenths
LightingAtCentre(lighting_type) == IF lighting_type = "center" THEN 13 ELSE 10

\* img[y, x] = color for size 1, cv2.circle(img, (x, y), size, ...) otherwise:
\* whether the particle covers the pixel in the middle of the image
CoversCentre(x, y, size) ==
    LET dx == (width \div 2) - x
        dy == (height \div 2) - y
    IN  IF size = 1 THEN dx = 0 /\ dy = 0 ELSE dx * dx + dy * dy <= size * size

GenerateSampleSeeded ==
    \E d \in RngDigits : GenerateSampleOf(d, {"g"})

\* contrast_factor, then the delta
ReduceContrastSeeded ==
    /\ ReduceContrastWith(Draw(ContrastFactors, 0), Draw(LighteningDeltas, 1))
    /\ Consumes(2, 0)

\* per pass: center_x, center_y, radius, intensity
AddReflectionsSeeded ==
    /\ AddReflectionsWith(IF iter = 0 THEN Draw(RandInt(1, 3), 0) ELSE count,
                          Draw(Intensities, CountDraws + 3),
                          [p \in DOMAIN img |-> Draw(Fades, CountDraws)])
    /\ Consumes(CountDraws + 4, 0)

\* per pass: x, y, size_x, size_y, the angle, smudge_intensity
AddSmudgesSeeded ==
    /\ AddSmudgesWith(IF iter = 0 THEN Draw(RandInt(2, 5), 0) ELSE count,
                      Draw(SmudgeIntensities, CountDraws + 5),
                      [p \in DOMAIN img |-> Draw(MaskValues, CountDraws)])
    /\ Consumes(CountDraws + 6, 0)

\* per pass: x, y, size, color
AddDustSeeded ==
    /\ AddDustWith(IF iter = 0 THEN Draw(ParticleCounts, 0) ELSE count,
                   Draw(DustX(width), CountDraws),
                   Draw(DustX(height), CountDraws + 1),
                   Draw(DustColors, CountDraws + 3),
                   [p \in DOMAIN img |->
                       CoversCentre(Draw(DustX(width), CountDraws),
                                    Draw(DustX(height), CountDraws + 1),
                                    Draw(RandInt(1, 3), CountDraws + 2))])
    /\ Consumes(CountDraws + 4, 0)

\* np.random.normal(0, random.uniform(2, 8), img.shape): the deviation from
\* `random`, the samples from np.random
AddNoiseSeeded ==
    /\ AddNoiseWith([p \in DOMAIN img |->
                        Pick(NoiseValues, np_state + Draw({0, 1}, 0))])
    /\ Consumes(1, 1)

\* lighting_type = random.choice([...])
VaryLightingSeeded ==
    /\ VaryLightingWith([p \in DOMAIN img |->
           LightingAtCentre(LightingChoices[Draw(1..Len(LightingChoices), 0)])])
    /\ Consumes(1, 0)

\* a draw made elsewhere in the process, from either generator, between two
\* calls (generate_sample is synchronous: nothing else runs during a call)
OtherDraw ==
    /\ op = "idle"
    /\ \E generator \in {"random", "np.random"} :
          /\ py_state' = Advance(py_state, IF generator = "random" THEN 1 ELSE 0)
          /\ np_state' = Advance(np_state, IF generator = "np.random" THEN 1 ELSE 0)
    /\ UNCHANGED <<ocrvars, extvars, genvars, estvars, op, digit, active_segments,
                   cur_run, prev_run>>

\* generate_sample returns (or raises); the caller keeps a returned image
ReturnSample ==
    /\ op = "generate_sample"
    /\ gen_pc \in {0, Len(Pipeline) + 1}
    /\ Reset
    /\ prev_run' = IF gen_pc = Len(Pipeline) + 1
                   THEN [out |-> img, clean |-> clean_img, py0 |-> cur_run.py0,
                         np0 |-> cur_run.np0]
                   ELSE prev_run
    /\ UNCHANGED <<py_state, np_state>>

RngInit == GenInit /\ width = 200 /\ height = 300

RngNext ==
    \/ GenerateSampleSeeded
    \/ ReduceContrastSeeded
    \/ AddReflectionsSeeded
    \/ AddSmudgesSeeded
    \/ AddDustSeeded
    \/ AddNoiseSeeded
    \/ VaryLightingSeeded
    \/ OtherDraw
    \/ ReturnSample

RngSpec == RngInit /\ [][RngNext]_vars

----------------------------------------------------------------------------
(* State machine of the pseudo-label estimator *)

\* _compute_segments_from_binary(bin_img) on an image of any shape up to
\* MaxDim: one ROI holds any number of ones, the others are all 0 or all 1
ComputeSegmentsFromBinary ==
    /\ op = "idle"
    /\ \E H \in 0..MaxDim, W \in 0..MaxDim, r0 \in ROINames, fill \in {0, 1} :
          \E k \in 0..PatchSize(H, W, ROIs[r0]) :
              LET b == [H |-> H, W |-> W,
                        ones |-> [r \in ROINames |->
                                    IF r = r0 THEN k
                                    ELSE fill * PatchSize(H, W, ROIs[r])]]
              IN  /\ bin_img' = b
                  /\ roi_means' = Means(b)
                  /\ seg_vec' = _compute_segments_from_binary(b)
    /\ op' = "_compute_segments_from_binary"
    /\ UNCHANGED <<ocrvars, extvars, genvars, rngvars, digit, active_segments>>

\* _preprocess_and_segments(img_bgr) on the clean rendering of a digit
PreprocessAndSegments ==
    /\ op = "idle"
    /\ \E d \in DOMAIN digit_segments, u \in GrayLevels :
          LET image == create_clean_digit(d, SamplePoints)
              n(r) == PatchSize(InputSize, InputSize, ROIs[r])
          IN  \E white \in SUBSET DrawnROIs(image) :
                  /\ digit' = d
                  /\ active_segments' = GetActiveSegments(d)
                  /\ clean_img' = image
                  /\ bin_img' = [H |-> InputSize, W |-> InputSize,
                                 ones |-> [r \in ROINames |->
                                             OnesInROI(image, r, n(r), u, white)]]
                  /\ roi_means' = Means(bin_img')
                  /\ seg_vec' = _compute_segments_from_binary(bin_img')
    /\ op' = "_preprocess_and_segments"
    /\ UNCHANGED <<ocrvars, extvars, rngvars, width, height, img, result_buf, gen_pc, iter, count, applied,
                   particle, metadata, gen_error>>

EstNext ==
    \/ ComputeSegmentsFromBinary
    \/ PreprocessAndSegments
    \/ Return

EstSpec == Init /\ [][EstNext]_vars

----------------------------------------------------------------------------
(* Vocabulary of the properties *)

Digits == 0..9

TemplateCall == op = "template_matching_predict"

PredictCall == op = "predict_digit"

\* the segments a pattern expects, and the segments observed on
Expected(d) == Range(patterns[d])

Observed(ss) == {s \in SegmentNames : ss[s]}

\* |expected and observed| - 0.5 * |observed but not expected|, in half units
SpecScore(d, ss) ==
    2 * Cardinality(Expected(d) \cap Observed(ss))
      - Cardinality(Observed(ss) \ Expected(d))

MaxSpecScore(ss) ==
    CHOOSE m \in {SpecScore(d, ss) : d \in Digits} :
        \A d \in Digits : SpecScore(d, ss) <= m

\* the activation vector of a digit's entry in the generator's table
DigitKeyOf == <<"0", "1", "2", "3", "4", "5", "6", "7", "8", "9">>

GeneratorSet(d) ==
    {segments[digit_segments[DigitKeyOf[d + 1]][i]] :
        i \in 1..Len(digit_segments[DigitKeyOf[d + 1]])}

TruthVector(d) == [s \in SegmentNames |-> s \in GeneratorSet(d)]

----------------------------------------------------------------------------
(* C1: decoding the activation vector that has exactly the segments of     *)
(* digit d's table entry active returns digit d with confidence 1.0, for   *)
(* every d in 0..9.                                                        *)
C1_RoundTrip ==
    \A d \in Digits :
        (TemplateCall /\ imageOk /\ segment_states = TruthVector(d))
            => /\ Has(ret, "digit")
               /\ ret.digit = d
               /\ ret.confidence = ConfUnit

(* C2: whenever the structural decoder returns a digit, that digit's score *)
(* (expected segments observed active, minus half the observed segments    *)
(* not expected) is the maximum over all ten digits.                       *)
C2_WinnerHasMaxScore ==
    (TemplateCall /\ Has(ret, "digit"))
        => /\ ret.digit \in Digits
           /\ \A d \in Digits :
                 SpecScore(d, segment_states) <= SpecScore(ret.digit, segment_states)

C2_Witness ==
    /\ TemplateCall
    /\ Has(ret, "digit")
    /\ \E d \in Digits :
          SpecScore(d, segment_states) < SpecScore(ret.digit, segment_states)

(* C3: when several digits share the maximum score the decoder returns the *)
(* numerically lowest of them.                                             *)
C3_TieBreakLowest ==
    (TemplateCall /\ Has(ret, "digit"))
        => \A d \in Digits :
              SpecScore(d, segment_states) = MaxSpecScore(segment_states)
                  => ret.digit <= d

C3_Witness ==
    /\ TemplateCall
    /\ imageOk
    /\ segment_states = VectorOf(patterns[3])
    /\ SpecScore(3, segment_states) = MaxSpecScore(segment_states)
    /\ SpecScore(8, segment_states) = MaxSpecScore(segment_states)
    /\ SpecScore(9, segment_states) = MaxSpecScore(segment_states)
    /\ Has(ret, "digit")
    /\ ret.digit = 3

\* [1,1,0,1,1,1,0] over (A,B,C,D,E,F,G): A, B, D, E, F on; C, G off
RegressionVector ==
    [s \in SegmentNames |->
        s \in {"top", "top_right", "bottom", "bottom_left", "top_left"}]

(* C4 as stated: for the vector [1,1,0,1,1,1,0] the winning digit is 6.    *)
C4_WinnerIsSix ==
    (TemplateCall /\ imageOk /\ segment_states = RegressionVector)
        => (Has(ret, "digit") /\ ret.digit = 6)

(* C4, amended: for the vector [1,1,0,1,1,1,0] the winning digit is 0      *)
(* (score 5; digit 6 scores 3.5).                                          *)
C4_WinnerIsZero ==
    (TemplateCall /\ imageOk /\ segment_states = RegressionVector)
        => /\ Has(ret, "digit")
           /\ ret.digit = 0
           /\ SpecScore(0, segment_states) = 10
           /\ SpecScore(6, segment_states) = 7

C4_Witness ==
    /\ TemplateCall
    /\ imageOk
    /\ segment_states = RegressionVector
    /\ Has(ret, "digit")

(* C5: a vector whose best score is <= 0 (the all-inactive vector) gives a *)
(* returned result with no digit and an error text, a vector whose best    *)
(* score is > 0 gives a digit; a failure inside the decoder is also        *)
(* returned as an error result, never raised.                              *)
C5_NoMatchIsReturned ==
    TemplateCall
        => /\ (imageOk /\ MaxSpecScore(segment_states) <= 0)
                => (~Has(ret, "digit") /\ ret.error = "No pattern match found")
           /\ (imageOk /\ MaxSpecScore(segment_states) > 0) => Has(ret, "digit")
           /\ ~imageOk => (~Has(ret, "digit") /\ Has(ret, "error"))

C5_Witness ==
    /\ TemplateCall
    /\ imageOk
    /\ segment_states = AllOff
    /\ MaxSpecScore(segment_states) = 0
    /\ ~Has(ret, "digit")

(* C6 as stated: the confidence of a decoded digit is max(0, score)/7      *)
(* capped at 1.0.                                                          *)
C6_ConfidenceCappedAtOne ==
    (TemplateCall /\ Has(ret, "digit"))
        => ret.confidence =
              Min(ConfUnit,
                  (Max(0, SpecScore(ret.digit, segment_states)) * ConfUnit) \div 14)

(* C6, amended: the confidence of a decoded digit is max(0, score)/7       *)
(* capped at 0.5 (so a full 7-segment match reports confidence 0.5).       *)
C6_ConfidenceCappedAtHalf ==
    (TemplateCall /\ Has(ret, "digit"))
        => /\ ret.digit \in Digits
           /\ 2 * ret.confidence =
                 Min(ConfUnit,
                     (Max(0, SpecScore(ret.digit, segment_states)) * ConfUnit) \div 7)

C6_Witness ==
    /\ TemplateCall
    /\ imageOk
    /\ \A s \in SegmentNames : segment_states[s]
    /\ Has(ret, "digit")
    /\ ret.digit = 8
    /\ 2 * ret.confidence = ConfUnit

\* the specified table, under top=A, top_right=B, bottom_right=C, bottom=D,
\* bottom_left=E, top_left=F, middle=G
SpecifiedTable ==
    0 :> {"top", "top_right", "bottom_right", "bottom", "bottom_left", "top_left"} @@
    1 :> {"top_right", "bottom_right"} @@
    2 :> {"top", "top_right", "middle", "bottom_left", "bottom"} @@
    3 :> {"top", "top_right", "middle", "bottom_right", "bottom"} @@
    4 :> {"top_left", "middle", "top_right", "bottom_right"} @@
    5 :> {"top", "top_left", "middle", "bottom_right", "bottom"} @@
    6 :> {"top", "top_left", "middle", "bottom_left", "bottom", "bottom_right"} @@
    7 :> {"top", "top_right", "bottom_right"} @@
    8 :> SegmentNames @@
    9 :> {"top", "top_right", "bottom_right", "bottom", "top_left", "middle"}

(* C7: the generator's digit_segments table (the segments a clean digit is *)
(* drawn from) and the decoder's patterns table both equal the specified   *)
(* table for all ten digits, each entry a non-empty subset of the seven    *)
(* segments.                                                               *)
C7_SameTruthTable ==
    /\ (op = "create_clean_digit" /\ digit \in DOMAIN DigitChars)
          => {segments[active_segments[i]] : i \in 1..Len(active_segments)}
                 = SpecifiedTable[DigitChars[digit]]
    /\ \A d \in Digits :
          /\ GeneratorSet(d) = SpecifiedTable[d]
          /\ Expected(d) = SpecifiedTable[d]
          /\ Expected(d) # {}
          /\ Expected(d) \subseteq SegmentNames

C7_Witness ==
    /\ op = "create_clean_digit"
    /\ digit = "6"
    /\ active_segments = <<"a", "f", "g", "e", "d", "c">>

----------------------------------------------------------------------------
(* Vocabulary of the arbitration properties *)

\* the results of the calls predict_digit made that carry a digit
DigitBearing == {i \in 1..Len(invoked) : Has(invoked[i].result, "digit")}

TopConfidence ==
    CHOOSE c \in {invoked[i].result.confidence : i \in DigitBearing} :
        \A i \in DigitBearing : invoked[i].result.confidence <= c

Tied == {i \in DigitBearing : invoked[i].result.confidence = TopConfidence}

\* neural > structural > traditional
Priority(tag) ==
    IF tag \in {"CNN_v2", "CNN_v3"} THEN 3
    ELSE IF tag = "Template_Matching" THEN 2
    ELSE 1

\* the per-method diagnostics an outcome carries: the entries of every field
\* other than its own error text and the list of methods
Diagnostics(r) ==
    UNION { {r[k][i] : i \in 1..Len(r[k])} :
                k \in DOMAIN r \ {"error", "methods_tried"} }

(* C8: when at least one requested method yields a digit, predict_digit    *)
(* returns a result that carries a digit and whose confidence is >= the    *)
(* confidence of every digit-bearing result produced in that call.         *)
C8_ArbitrationSelectsMax ==
    (PredictCall /\ DigitBearing # {})
        => /\ Has(ret, "digit")
           /\ \A i \in DigitBearing : invoked[i].result.confidence <= ret.confidence

C8_Witness ==
    /\ PredictCall
    /\ Has(ret, "digit")
    /\ \E i, j \in DigitBearing :
          /\ i < j
          /\ invoked[i].result.confidence < invoked[j].result.confidence
          /\ ret.confidence = invoked[j].result.confidence
    /\ \E i \in 1..Len(invoked) : ~Has(invoked[i].result, "digit")

(* C9 as stated: when digit-bearing results tie on the highest confidence, *)
(* predict_digit returns the one of the higher-priority method under       *)
(* neural > structural > traditional, whatever the order of the request.   *)
C9_TieBreakByPriority ==
    (PredictCall /\ DigitBearing # {})
        => /\ Has(ret, "method")
           /\ \A i \in Tied : Priority(invoked[i].result.method) <= Priority(ret.method)

(* C9, amended: when digit-bearing results tie on the highest confidence,  *)
(* predict_digit returns the one produced first, that is the one whose     *)
(* method comes first in the request list; there is no method priority.    *)
C9_TieBreakByListOrder ==
    (PredictCall /\ DigitBearing # {})
        => \A i \in Tied :
              (\A j \in Tied : i <= j)
                  => /\ Has(ret, "method")
                     /\ ret.method = invoked[i].result.method
                     /\ ret.digit = invoked[i].result.digit
                     /\ ret.confidence = invoked[i].result.confidence

C9_Witness ==
    /\ PredictCall
    /\ Has(ret, "digit")
    /\ \E i, j \in Tied :
          /\ i < j
          /\ Priority(invoked[i].result.method) < Priority(invoked[j].result.method)
          /\ ret.method = invoked[i].result.method

(* C10 as stated: when every requested method fails to produce a digit,    *)
(* the failure outcome lists the attempted methods and each attempted      *)
(* method's individual error.                                              *)
C10_FailureListsErrors ==
    (PredictCall /\ DigitBearing = {})
        => /\ ret.error = "All methods failed"
           /\ Has(ret, "methods_tried")
           /\ ret.methods_tried = [i \in 1..Len(invoked) |-> invoked[i].method]
           /\ \A i \in 1..Len(invoked) : invoked[i].result \in Diagnostics(ret)

(* C10, amended: when every requested method fails to produce a digit      *)
(* (also for an empty list), predict_digit returns a dictionary with error *)
(* 'All methods failed' and methods_tried equal to the requested list, the *)
(* methods it skipped included; the individual errors are not reported.    *)
C10_FailureListsRequest ==
    (PredictCall /\ DigitBearing = {})
        => /\ ret.error = "All methods failed"
           /\ Has(ret, "methods_tried")
           /\ ret.methods_tried = methods
           /\ Diagnostics(ret) = {}

C10_Witness ==
    /\ PredictCall
    /\ DigitBearing = {}
    /\ Len(invoked) > 0
    /\ Len(invoked) < Len(methods)
    /\ ret.methods_tried = methods

----------------------------------------------------------------------------
(* Vocabulary of the diagnostics properties *)

\* the digit-bearing results in the order the calls were made, as constructed
RECURSIVE Constructed(_)
Constructed(i) ==
    IF i = 0 THEN <<>>
    ELSE IF Has(invoked[i].result, "digit")
         THEN Append(Constructed(i - 1), invoked[i].result)
         ELSE Constructed(i - 1)

\* the result of the selected method, as that method constructed it
Selected == invoked[CHOOSE i \in Tied : \A j \in Tied : i <= j].result

(* C11 as stated: the result of a successful predict_digit carries, as     *)
(* diagnostics, the individual result of every method attempted in the     *)
(* call, the attempts that yielded no digit included.                      *)
C11_DiagnosticsHoldEveryAttempt ==
    (PredictCall /\ DigitBearing # {})
        => /\ Has(ret, "all_methods")
           /\ \A i \in 1..Len(invoked) : invoked[i].result \in Range(ret.all_methods)

(* C11, amended: the result of a successful predict_digit carries, under   *)
(* all_methods, exactly the results that yielded a digit, in the order the *)
(* methods were called; attempts that yielded no digit are not carried.    *)
C11_DiagnosticsHoldDigitResults ==
    (PredictCall /\ DigitBearing # {})
        => /\ Has(ret, "all_methods")
           /\ ret.all_methods = Constructed(Len(invoked))
           /\ \A i \in 1..Len(ret.all_methods) : Has(ret.all_methods[i], "digit")

C11_Witness ==
    /\ PredictCall
    /\ DigitBearing # {}
    /\ Len(ret.all_methods) = 2
    /\ Len(invoked) = 3
    /\ ~Has(invoked[2].result, "digit")

(* C12 as stated: predict_digit returns the selected method's result       *)
(* exactly as the method produced it, and no method's result is modified   *)
(* after it was constructed.                                               *)
C12_ResultReturnedUnchanged ==
    (PredictCall /\ DigitBearing # {})
        => /\ ret = Selected
           /\ results = Constructed(Len(invoked))

(* C12, amended: predict_digit returns the selected method's own result    *)
(* object with one key added to it, all_methods; every field the method    *)
(* produced (digit, confidence, method tag, ...) keeps its value, and the  *)
(* results of the other methods are not modified.                          *)
C12_ResultGainsOnlyAllMethods ==
    (PredictCall /\ DigitBearing # {})
        => /\ DOMAIN ret = DOMAIN Selected \cup {"all_methods"}
           /\ \A k \in DOMAIN Selected : ret[k] = Selected[k]
           /\ Len(results) = Len(Constructed(Len(invoked)))
           /\ \E w \in 1..Len(results) :
                 /\ results[w] = ret
                 /\ \A i \in 1..Len(results) :
                       i # w => results[i] = Constructed(Len(invoked))[i]

C12_Witness ==
    /\ PredictCall
    /\ methods = <<"template">>
    /\ Len(invoked) = 1
    /\ Has(invoked[1].result, "digit")
    /\ ret.method = "Template_Matching"
    /\ ret.digit = 6
    /\ Has(ret, "all_methods")
    /\ ~Has(invoked[1].result, "all_methods")

----------------------------------------------------------------------------
(* Properties of the generator (specification GenSpec, C17 under Spec)     *)

SampleCall == op = "generate_sample"

\* generate_sample has returned its (image, metadata) pair
SampleReturned == SampleCall /\ gen_pc = Len(Pipeline) + 1

\* generate_sample has ended, by a return or by an exception
SampleEnded == SampleCall /\ gen_pc \in {0, Len(Pipeline) + 1}

\* the order the property gives the six stages in
StageOrder ==
    <<"_reduce_contrast", "_add_reflections", "_add_smudges", "_add_dust",
      "_add_noise", "_vary_lighting">>

\* the metadata name of each stage
EffectName ==
    "_reduce_contrast" :> "low_contrast" @@ "_add_reflections" :> "reflections" @@
    "_add_smudges" :> "smudges" @@ "_add_dust" :> "dust" @@
    "_add_noise" :> "noise" @@ "_vary_lighting" :> "lighting_variation"

(* C13: every run of the degradation pipeline applies the six stages       *)
(* exactly once each, in the order contrast, reflections, smudges, dust,   *)
(* noise, lighting, and the effects_applied of the sample lists exactly    *)
(* the applied stages in the order they were applied.                      *)
C13_SixStagesInOrder ==
    SampleEnded
        => /\ applied = StageOrder
           /\ Has(metadata, "effects_applied")
           /\ metadata.effects_applied = [i \in 1..Len(applied) |-> EffectName[applied[i]]]

(* C14: after every stage, and in the final output, every pixel channel is *)
(* an integer in 0..255 whatever the random draws; a dust particle has a   *)
(* value in 60..180 and lies at coordinates inside the image.              *)
C14_PixelsStayInRange ==
    /\ \A p \in DOMAIN img : img[p] \in 0..255
    /\ particle # NoParticle
          => /\ particle.color \in 60..180
             /\ particle.x \in 0..(width - 1)
             /\ particle.y \in 0..(height - 1)

C14_Witness ==
    /\ SampleReturned
    /\ applied = StageOrder
    /\ particle.color = 180
    /\ particle.x = width - 1
    /\ particle.y = height - 1
    /\ \E p \in DOMAIN img : img[p] = 255

(* C15: the degradation completes without raising an error for every clean *)
(* image of positive width and height, canvases narrower or shorter than   *)
(* 50 pixels included, whatever the random draws.                          *)
C15_DegradeNeverRaises ==
    SampleCall => gen_error = ""

CleanCall == op = "create_clean_digit"

\* the digit arguments create_clean_digit has a table entry for
ValidKeys == Range(DigitKeyOf)

(* C17 as stated: create_clean_digit fails with InvalidDigit for a digit   *)
(* argument outside 0..9 and returns no image for it, a blank canvas       *)
(* included.                                                               *)
C17_InvalidDigitFails ==
    (CleanCall /\ digit \notin ValidKeys)
        => /\ gen_error = "InvalidDigit"
           /\ clean_img = NoImage

(* C17, amended: create_clean_digit never fails; for a digit argument      *)
(* outside '0'..'9' it returns the blank canvas, every pixel at the        *)
(* background value, and for a digit in '0'..'9' it returns the canvas     *)
(* with exactly the segments of the digit's table entry drawn dark.        *)
C17_InvalidDigitGivesBlankCanvas ==
    CleanCall
        => /\ gen_error = ""
           /\ DOMAIN clean_img = SamplePoints
           /\ clean_img["none"] = Background
           /\ \A p \in DOMAIN segments :
                 clean_img[p] = SegmentColor
                    <=> (digit \in ValidKeys /\ p \in Range(digit_segments[digit]))
           /\ \A p \in DOMAIN segments :
                 clean_img[p] # SegmentColor => clean_img[p] = Background

C17_Witness ==
    /\ CleanCall
    /\ digit = "x"
    /\ \A p \in SamplePoints : clean_img[p] = Background

----------------------------------------------------------------------------
\* a confidence within [0, 1], in units of 1/ConfUnit
UnitInterval == 0..ConfUnit

(* C20: every result that carries a digit has a confidence within [0, 1]:  *)
(* the result of each method (CNN with one head, CNN with two heads and    *)
(* the combined confidence 0.7 * digit + 0.3 * segment, traditional OCR,   *)
(* template matching) and the result predict_digit returns.                *)
C20_ConfidenceInUnitInterval ==
    /\ \A i \in 1..Len(invoked) :
          Has(invoked[i].result, "digit") => invoked[i].result.confidence \in UnitInterval
    /\ \A i \in 1..Len(results) :
          Has(results[i], "digit") => results[i].confidence \in UnitInterval
    /\ Has(ret, "digit") => ret.confidence \in UnitInterval

C20_Witness ==
    /\ PredictCall
    /\ Len(invoked) = 2
    /\ Has(invoked[1].result, "segment_confidence")
    /\ invoked[1].result.digit_confidence = ConfUnit
    /\ invoked[1].result.segment_confidence = ConfUnit
    /\ Has(invoked[2].result, "digit")
    /\ invoked[2].result.method = "Template_Matching"
    /\ ret.method = "CNN_v3"
    /\ ret.confidence = ConfUnit

----------------------------------------------------------------------------
(* Properties of the estimator (specification EstSpec)                     *)

ComputeCall == op = "_compute_segments_from_binary"

PreprocessCall == op = "_preprocess_and_segments"

\* the area of ROI r in an image of height H and width W: rows and columns
\* from the truncated lower bound up to, not including, the truncated upper one
Area(r, H, W) ==
    LET rows == ((H * ROIs[r].y1) \div 100) - ((H * ROIs[r].y0) \div 100)
        cols == ((W * ROIs[r].x1) \div 100) - ((W * ROIs[r].x0) \div 100)
    IN  IF rows <= 0 \/ cols <= 0 THEN 0 ELSE rows * cols

(* C18: for every digit d in 0..9, the segments estimated on the clean     *)
(* rendering of d (dark segments on a light background) are exactly the    *)
(* segments of d's table entry: active iff in the entry.                   *)
C18_CleanRenderingGivesTruthTable ==
    PreprocessCall
        => \A r \in ROINames :
              seg_vec[r] = 1 <=> SegmentOfROI[r] \in Range(digit_segments[digit])

(* C19: for every binary image of height H >= 0 and width W >= 0, each of  *)
(* the seven segments is active iff its ROI is non-empty and the mean      *)
(* inside it is strictly greater than 0.4; an ROI of zero area has mean    *)
(* 0.0 and is inactive, and the call returns all seven entries.            *)
C19_ActiveIffMeanAboveThreshold ==
    ComputeCall
        => /\ DOMAIN seg_vec = ROINames
           /\ \A r \in ROINames :
                 LET area == Area(r, bin_img.H, bin_img.W)
                 IN  /\ seg_vec[r] \in {0, 1}
                     /\ seg_vec[r] = 1 <=> (area > 0 /\ 5 * bin_img.ones[r] > 2 * area)
                     /\ area = 0 => (roi_means[r].num = 0 /\ seg_vec[r] = 0)

C19_Witness ==
    /\ ComputeCall
    /\ \E r \in ROINames : Area(r, bin_img.H, bin_img.W) = 0 /\ seg_vec[r] = 0
    /\ \E r \in ROINames :
          /\ Area(r, bin_img.H, bin_img.W) > 0
          /\ 5 * bin_img.ones[r] = 2 * Area(r, bin_img.H, bin_img.W)
          /\ seg_vec[r] = 0
    /\ \E r \in ROINames : seg_vec[r] = 1

----------------------------------------------------------------------------
(* Reproducibility of the degradation (specification RngSpec)              *)

\* a run has returned and an earlier run on the same clean image is on record
SecondRunOnSameImage ==
    /\ SampleReturned
    /\ prev_run # NoPrevRun
    /\ prev_run.clean = clean_img

----------------------------------------------------------------------------
(* Which methods predict_digit invokes (specification Spec)                *)

\* the methods of the calls made, in the order they were made
InvokedMethods == [i \in 1..Len(invoked) |-> invoked[i].method]

\* a listed name the loop has a branch for on this object
Runnable(m) ==
    \/ m = "template"
    \/ m = "cnn" /\ cnn_available
    \/ m = "traditional" /\ tesseract_available

(* C22 as stated: predict_digit invokes every method named in the request  *)
(* list, once, in list order, and nothing else; the methods_tried of the   *)
(* failure outcome are exactly the methods that were invoked.              *)
C22_InvokesEveryRequested ==
    PredictCall
        => /\ InvokedMethods = methods
           /\ Has(ret, "methods_tried") => ret.methods_tried = InvokedMethods

(* C22, amended: predict_digit invokes, in list order and once per listing, *)
(* the listed methods it can run: 'template' always, 'cnn' only when the   *)
(* CNN is available, 'traditional' only when tesseract is available; other *)
(* names and unavailable methods are skipped without a call, and nothing   *)
(* outside the list is invoked. The methods_tried of the failure outcome   *)
(* is the request list, skipped entries included.                          *)
C22_InvokesRunnableRequested ==
    PredictCall
        => /\ InvokedMethods = SelectSeq(methods, Runnable)
           /\ Has(ret, "methods_tried") => ret.methods_tried = methods

C22_Witness ==
    /\ PredictCall
    /\ methods = <<"cnn", "template">>
    /\ ~cnn_available
    /\ InvokedMethods = <<"template">>
    /\ Has(ret, "methods_tried")

----------------------------------------------------------------------------
\* the results a call of predict_digit got from one method
ResultsOf(m) ==
    {invoked[i].result : i \in {j \in 1..Len(invoked) : invoked[j].method = m}}

(* C24: a template-matching result with a digit has confidence in (0, 0.5] *)
(* and is_confident false; a traditional-OCR result with a digit has       *)
(* confidence exactly 0.6; so when traditional OCR yields a digit in a     *)
(* call of predict_digit, the template-matching result is not selected.    *)
C24_TemplateNeverBeatsTraditional ==
    /\ (TemplateCall /\ Has(ret, "digit"))
          => (ret.confidence \in 1..(ConfUnit \div 2) /\ ~ret.is_confident)
    /\ PredictCall
          => /\ \A r \in ResultsOf("template") :
                   Has(r, "digit")
                      => (r.confidence \in 1..(ConfUnit \div 2) /\ ~r.is_confident)
             /\ \A r \in ResultsOf("traditional") :
                   Has(r, "digit") => 10 * r.confidence = 6 * ConfUnit
             /\ (\E r \in ResultsOf("traditional") : Has(r, "digit"))
                   => ret.method # "Template_Matching"

C24_Witness ==
    /\ PredictCall
    /\ methods = <<"template", "traditional">>
    /\ \E r \in ResultsOf("template") :
          Has(r, "digit") /\ r.confidence = ConfUnit \div 2
    /\ \E r \in ResultsOf("traditional") : Has(r, "digit")
    /\ ret.method = "Traditional_OCR"

----------------------------------------------------------------------------
(* The contrast stage on a whole rendering: add_realistic_effects copies    *)
(* the clean image and hands the copy to _reduce_contrast, here at every   *)
(* sample point at once, so that dark and light pixels meet in one image.  *)

\* the sample points of a rendering: every segment and the background
ContrastSamples == {SamplePoints, {"g", "none"}}

\* result = img.copy(); result = self._reduce_contrast(result)
ReduceContrastOfClean ==
    /\ op = "idle"
    /\ op' = "_reduce_contrast"
    /\ \E d \in DigitKeys, pts \in ContrastSamples,
          contrast_factor \in ContrastFactors, delta \in LighteningDeltas :
          /\ digit' = d
          /\ active_segments' = GetActiveSegments(d)
          /\ clean_img' = create_clean_digit(d, pts)
          /\ img' = _reduce_contrast(create_clean_digit(d, pts),
                                     contrast_factor, delta)
    /\ result_buf' = Copy(Copy("clean_img"))
    /\ UNCHANGED <<ocrvars, extvars, estvars, rngvars, width, height, gen_pc, iter,
                   count, applied, particle, metadata, gen_error>>

ContrastNext ==
    \/ ReduceContrastOfClean
    \/ Return

ContrastSpec == RngInit /\ [][ContrastNext]_vars

\* the stage has run on a rendering
ContrastCall == op = "_reduce_contrast"

\* a pixel of the clean image with all channels below 100
Dark(v) == v < 100

\* the compressed value of a clean pixel, lightened by delta or not,
\* as a uint8
Compressed(v, contrast_factor, delta, lightened) ==
    ToUint8(2550 + contrast_factor * (2 * v - 255)
                 + (IF lightened THEN 510 * delta ELSE 0), 20)

(* C21: in the contrast stage one lightening delta per image is added to   *)
(* exactly the pixels that are dark (below 100) in the clean image the     *)
(* stage received, and to no other pixel: every output pixel is the        *)
(* compression of its clean value, plus the same delta iff the clean      *)
(* value was dark; whether the compressed value is dark plays no part.     *)
C21_DeltaOnCleanDarkPixels ==
    ContrastCall
        => \E contrast_factor \in ContrastFactors, delta \in LighteningDeltas :
              \A p \in DOMAIN img :
                 img[p] = Compressed(clean_img[p], contrast_factor, delta,
                                     Dark(clean_img[p]))

\* a segment that is dark in the clean image and no longer dark once
\* compressed has been lightened, next to a background pixel that has not
C21_Witness ==
    /\ ContrastCall
    /\ digit = "1"
    /\ \E p, q \in DOMAIN img :
          /\ Dark(clean_img[p])
          /\ ~Dark(clean_img[q])
          /\ ~Dark(Compressed(clean_img[p], 3, 0, FALSE))
          /\ img[p] = Compressed(clean_img[p], 3, 1, TRUE)
          /\ img[q] = Compressed(clean_img[q], 3, 1, FALSE)

(* C29 as stated: after the contrast stage every segment pixel (40 in the  *)
(* clean image) is strictly darker than every background pixel (220 in    *)
(* the clean image), for every contrast factor and every delta drawn.      *)
C29_SegmentsStayDarker ==
    ContrastCall
        => \A p, q \in DOMAIN img :
              (clean_img[p] = SegmentColor /\ clean_img[q] = Background)
                 => img[p] < img[q]

----------------------------------------------------------------------------
(* C30: generate_sample never modifies the clean image it rendered: while  *)
(* the stages run and after the return, the clean image is still what      *)
(* create_clean_digit drew, although the dust stage writes in place on the *)
(* array it is given.                                                      *)
C30_CleanImageUntouched ==
    SampleCall
        => /\ clean_img = create_clean_digit(digit, DOMAIN clean_img)
           /\ result_buf # "clean_img"

\* the dust stage has written a particle over the tracked pixel, in place
C30_Witness ==
    /\ SampleCall
    /\ gen_pc \in {4, 5}
    /\ particle # NoParticle
    /\ \E p \in DOMAIN img : img[p] = particle.color /\ img[p] # clean_img[p]
    /\ clean_img = create_clean_digit(digit, DOMAIN clean_img)

----------------------------------------------------------------------------
(* State machine of HumidityAppOCRManager: its constructor on a disk with   *)
(* some model files.                                                        *)

\* HumidityAppOCRManager()
ManagerConstruct ==
    /\ op = "idle"
    /\ op' = "HumidityAppOCRManager"
    /\ \E fs \in [ModelFiles -> FileStates], tesseract \in BOOLEAN :
          LET made == ManagerInit(fs)
          IN  /\ files' = fs
              /\ ocr' = made.ocr
              /\ constructed' = made.constructed
              /\ cnn_available' = made.state.cnn_available
              /\ model_path' = made.state.model_path
              /\ tesseract_available' = tesseract
    /\ UNCHANGED <<methods, imageOk, segment_states, cnnPred, text, invoked,
                   results, ret, digit, active_segments, genvars, estvars,
                   rngvars, reading_type, prediction, seqvars, namevars,
                   datavars>>

ManagerNext ==
    \/ ManagerConstruct
    \/ Return

ManagerSpec == RngInit /\ [][ManagerNext]_vars

\* the constructor has run
ManagerCall == op = "HumidityAppOCRManager"

\* the listed models that exist and load
LoadableListed == {i \in 1..Len(model_paths) : files[model_paths[i]] = "good"}

(* C23 as stated: the constructor ends with an OCR object in every case,   *)
(* and the OCR it ends with has the CNN available whenever some listed     *)
(* model file exists and loads, a listed file that exists but fails to     *)
(* load having been passed over for the next existing one.                 *)
C23_CnnWheneverSomeListedModelLoads ==
    ManagerCall
        => /\ ocr # "None"
           /\ LoadableListed # {} => cnn_available

----------------------------------------------------------------------------
(* State machine of the reading methods: process_humidity_reading and      *)
(* process_temperature_reading of ProductionOCR, process_display_reading   *)
(* of the manager that holds it.                                           *)

\* result = self.predict_digit(image), then the method's own return
ReadingOf(method, type) ==
    /\ op = "idle"
    /\ op' = method
    /\ reading_type' = type
    /\ \E ok \in BOOLEAN, ss \in PredictVectors, pred \in CnnPredictions,
          t \in Texts :
          LET ms == Defaulted(FALSE, <<>>)
              run == RunMethods(ms, 1, ok, ss, pred, t,
                                [invoked |-> <<>>, results |-> <<>>])
              result == predict_digit_return(ms, run.results)
          IN  /\ methods' = ms
              /\ imageOk' = ok
              /\ segment_states' = ss
              /\ cnnPred' = pred
              /\ text' = t
              /\ invoked' = run.invoked
              /\ results' = ResultsAfterReturn(ms, run.results)
              /\ prediction' = result
              /\ ret' = IF method = "process_humidity_reading"
                        THEN HumidityReading(result)
                        ELSE IF method = "process_temperature_reading"
                        THEN TemperatureReading(result)
                        ELSE DisplayReading(type, result)
    /\ UNCHANGED <<cnn_available, tesseract_available, digit, active_segments,
                   genvars, estvars, rngvars, files, ocr, model_path,
                   constructed, seqvars, namevars, datavars>>

\* ProductionOCR.process_humidity_reading(image)
ProcessHumidityReading == ReadingOf("process_humidity_reading", "")

\* ProductionOCR.process_temperature_reading(image)
ProcessTemperatureReading == ReadingOf("process_temperature_reading", "")

\* HumidityAppOCRManager.process_display_reading(image, reading_type)
ProcessDisplayReading ==
    \E type \in ReadingTypes : ReadingOf("process_display_reading", type)

ReadingNext ==
    \/ ProcessHumidityReading
    \/ ProcessTemperatureReading
    \/ ProcessDisplayReading
    \/ Return

ReadingSpec == Init /\ [][ReadingNext]_vars

\* a reading method has returned
ReadingCall ==
    op \in {"process_humidity_reading", "process_temperature_reading",
            "process_display_reading"}

\* the key the reading reports its value under
ValueKey ==
    IF op = "process_humidity_reading" \/ reading_type = "humidity"
    THEN "humidity"
    ELSE IF op = "process_temperature_reading" \/ reading_type = "temperature"
    THEN "temperature"
    ELSE "value"

(* C25: when predict_digit yields a digit it is in 0..9, and the reading   *)
(* method reports that digit with valid = true and no error (its out-of-   *)
(* range branch is never taken), the 'auto' reading with suggested_type    *)
(* 'humidity'; when predict_digit yields no digit the reading reports a    *)
(* null value, valid = false and confidence 0.                             *)
C25_ReadingsValidOrNull ==
    ReadingCall
        => IF Has(prediction, "digit")
           THEN /\ prediction.digit \in 0..9
                /\ ret[ValueKey] = prediction.digit
                /\ ret.valid
                /\ ~Has(ret, "error")
                /\ ValueKey = "value" => ret.suggested_type = "humidity"
           ELSE /\ ret[ValueKey] = None
                /\ ~ret.valid
                /\ ret.confidence = 0

\* an 'auto' reading of a 9
C25_Witness ==
    /\ op = "process_display_reading"
    /\ reading_type = "auto"
    /\ Has(prediction, "digit")
    /\ prediction.digit = 9
    /\ ret.value = 9
    /\ ret.valid
    /\ ret.suggested_type = "humidity"

----------------------------------------------------------------------------
(* SevenSegmentOCR (ocr_integration): predict_number_sequence.  Strings are *)
(* sequences of characters; a float is the pair <<numerator, denominator>> *)
(* of the decimal it was parsed from, and <<>> stands for None.            *)

MaxImages == 3

\* the characters of the decimal digits, digit d at position d + 1
DecimalChars == <<"0", "1", "2", "3", "4", "5", "6", "7", "8", "9">>

\* str(n) of an integer n >= 0: its decimal digits, most significant first
RECURSIVE str(_)
str(n) ==
    IF n < 10 THEN <<DecimalChars[n + 1]>>
    ELSE str(n \div 10) \o <<DecimalChars[(n % 10) + 1]>>

RECURSIVE Pow10(_)
Pow10(k) == IF k = 0 THEN 1 ELSE 10 * Pow10(k - 1)

\* the integer a sequence of digit characters writes
RECURSIVE DigitsValue(_)
DigitsValue(s) ==
    IF s = <<>> THEN 0
    ELSE 10 * DigitsValue(SubSeq(s, 1, Len(s) - 1)) + DigitChars[s[Len(s)]]

NoNumber == <<>>

\* float(s) for s made of digits and points: the decimal as a fraction;
\* ValueError when s has two points, no digit or another character
float(s) ==
    LET points == {i \in 1..Len(s) : s[i] = "."}
        digits == SelectSeq(s, LAMBDA c : c # ".")
    IN  IF Cardinality(points) > 1 \/ ~IsDigit(digits)
        THEN [raised |-> "ValueError"]
        ELSE [raised |-> "",
              value |-> <<DigitsValue(digits),
                          IF points = {} THEN 1
                          ELSE Pow10(Len(s) - (CHOOSE i \in points : TRUE))>>]

\* what the model makes of one image: an exception on the way, or a class
\* with its probability
ImageOutcomes ==
    {[kind |-> "raise", digit |-> 0, confidence |-> 0]}
        \cup {[kind |-> "ok", digit |-> d, confidence |-> ConfUnit] : d \in 0..9}

\* self.confidence_threshold = 0.7
sequence_confidence_threshold == (7 * ConfUnit) \div 10

\* SevenSegmentOCR.predict_digit(image) with a model loaded
SevenSegmentOCR_predict_digit(outcome) ==
    IF outcome.kind = "raise"
    THEN [digit |-> None, confidence |-> 0, is_confident |-> FALSE,
          error |-> "exception"]
    ELSE [digit |-> outcome.digit,
          confidence |-> outcome.confidence,
          is_confident |-> outcome.confidence >= sequence_confidence_threshold]

\* number_str += str(result['digit']) if result.get('digit') is not None
\* else "?"
RECURSIVE number_str(_)
number_str(digit_results) ==
    IF digit_results = <<>> THEN <<>>
    ELSE LET n == Len(digit_results)
             result == digit_results[n]
         IN  number_str(SubSeq(digit_results, 1, n - 1))
                \o (IF Get(result, "digit", None) # None
                    THEN str(result.digit) ELSE <<"?">>)

\* total_confidence: the sum of the confidences above 0
RECURSIVE total_confidence(_)
total_confidence(digit_results) ==
    IF digit_results = <<>> THEN 0
    ELSE LET n == Len(digit_results)
             c == Get(digit_results[n], "confidence", 0)
         IN  total_confidence(SubSeq(digit_results, 1, n - 1))
                + (IF c > 0 THEN c ELSE 0)

number_valueNoPoint(s) ==
    IF (\A i \in 1..Len(s) : s[i] # "?") /\ Len(s) > 0
    THEN LET parsed_float == float(s)
         IN  IF parsed_float.raised # "" THEN NoNumber ELSE parsed_float.value
    ELSE NoNumber

\* the try block: float(number_str[:2] + '.' + number_str[2:]) from three
\* characters on, float(number_str) below; None with a '?' or on ValueError
number_value(s) ==
    IF (\A i \in 1..Len(s) : s[i] # "?") /\ Len(s) > 0
    THEN LET parsed_float ==
                 IF Len(s) >= 3
                 THEN float(SubSeq(s, 1, 2) \o <<".">> \o SubSeq(s, 3, Len(s)))
                 ELSE float(s)
         IN  IF parsed_float.raised # "" THEN NoNumber ELSE parsed_float.value
    ELSE NoNumber

\* predict_number_sequence(images) with a model loaded
predict_number_sequence(imgs) ==
    IF imgs = <<>>
    THEN [number |-> NoNumber, confidence |-> <<0, 1>>, digits |-> <<>>]
    ELSE LET digit_results ==
                 [i \in 1..Len(imgs) |-> SevenSegmentOCR_predict_digit(imgs[i])]
             avg_confidence == <<total_confidence(digit_results), Len(imgs)>>
         IN  [number |-> number_value(number_str(digit_results)),
              number_string |-> number_str(digit_results),
              confidence |-> avg_confidence,
              is_confident |->
                  avg_confidence[1] >= sequence_confidence_threshold * avg_confidence[2],
              digit_results |-> digit_results]

\* SevenSegmentOCR.load_model(model_path): the model, or the exception of
\* tf.keras.models.load_model raised again
LoadModel ==
    /\ op = "idle"
    /\ op' = "load_model"
    /\ \E state \in FileStates \ {"missing"} :
          IF state = "good"
          THEN model' = "loaded" /\ raised' = ""
          ELSE model' = model /\ raised' = "Exception"
    /\ UNCHANGED <<ocrvars, genvars, estvars, rngvars, appvars, namevars,
                   datavars, digit, active_segments, images>>

\* SevenSegmentOCR.predict_number_sequence(images): with images to read,
\* predict_digit raises ValueError when self.model is None
PredictNumberSequence ==
    /\ op = "idle"
    /\ op' = "predict_number_sequence"
    /\ \E imgs \in SeqsUpTo(ImageOutcomes, MaxImages) :
          /\ images' = imgs
          /\ IF imgs # <<>> /\ model = "None"
             THEN raised' = "ValueError" /\ ret' = NoResult
             ELSE raised' = "" /\ ret' = predict_number_sequence(imgs)
    /\ UNCHANGED <<cnn_available, tesseract_available, methods, imageOk,
                   segment_states, cnnPred, text, invoked, results, genvars,
                   estvars, rngvars, appvars, namevars, datavars, digit,
                   active_segments, model>>

SeqNext ==
    \/ LoadModel
    \/ PredictNumberSequence
    \/ Return

SeqSpec == RngInit /\ [][SeqNext]_vars

\* predict_number_sequence has ended
SequenceCall == op = "predict_number_sequence"

\* the positions whose digit prediction failed
FailedPositions == {i \in 1..Len(images) : images[i].kind = "raise"}

\* the digits predicted, read as one integer
RECURSIVE DigitsRead(_)
DigitsRead(imgs) ==
    IF imgs = <<>> THEN 0
    ELSE 10 * DigitsRead(SubSeq(imgs, 1, Len(imgs) - 1)) + imgs[Len(imgs)].digit

\* the result the property describes for the images read
SequenceAsDescribed ==
    IF images = <<>>
    THEN ret.number = NoNumber /\ ret.confidence[1] = 0
    ELSE /\ Has(ret, "number_string")
         /\ Len(ret.number_string) = Len(images)
         /\ \A i \in 1..Len(images) :
               ret.number_string[i] = IF i \in FailedPositions THEN "?"
                                      ELSE DecimalChars[images[i].digit + 1]
         /\ ret.number = NoNumber <=> FailedPositions # {}
         /\ FailedPositions = {}
               => ret.number[1] * (IF Len(images) >= 3
                                   THEN Pow10(Len(images) - 2) ELSE 1)
                     = DigitsRead(images) * ret.number[2]

(* C26 as stated: predict_number_sequence returns, for n >= 1 images, a    *)
(* number_string of n characters with '?' exactly at the failed positions  *)
(* and the predicted digit elsewhere, number null iff some position        *)
(* failed and otherwise the digits read as a number with the decimal       *)
(* point after the first two digits when n >= 3; for no image it returns   *)
(* number null and confidence 0.                                           *)
C26_SequenceReturnsAsDescribed ==
    SequenceCall => (raised = "" /\ SequenceAsDescribed)

(* C26, amended: with a model loaded, or for the empty list, the call      *)
(* returns the result described; with no model loaded and n >= 1 images    *)
(* it returns nothing and ends with the ValueError of predict_digit.       *)
C26_SequenceAsDescribedWithModel ==
    SequenceCall
        => IF model = "loaded" \/ images = <<>>
           THEN raised = "" /\ SequenceAsDescribed
           ELSE raised = "ValueError" /\ ret = NoResult

\* three digits read with a model loaded: 0, 7 and 5 give "07.5", i.e. 7.5
C26_Witness ==
    /\ SequenceCall
    /\ model = "loaded"
    /\ Len(images) = 3
    /\ FailedPositions = {}
    /\ ret.number_string = <<"0", "7", "5">>
    /\ ret.number = <<75, 10>>

----------------------------------------------------------------------------
(* The file name generate_dataset gives a sample, and what the readers of   *)
(* the images directory make of it: load_dataset of the v3 trainer and     *)
(* benchmark_model of SevenSegmentOCR.                                      *)

MaxIndex == 12

\* the indices where the padding of {i:04d} changes, and one beyond
PadEdges == {99, 100, 999, 1000, 9999, 10000, 12345}

Indices == 0..MaxIndex \cup PadEdges

\* "seven_segment_"
NamePrefix ==
    <<"s", "e", "v", "e", "n", "_", "s", "e", "g", "m", "e", "n", "t", "_">>

\* ".png", ".jpg", ".jpeg"
ImageSuffixes ==
    {<<".", "p", "n", "g">>, <<".", "j", "p", "g">>, <<".", "j", "p", "e", "g">>}

\* {i:04d}: the decimal digits of i, with zeros in front up to four places
RECURSIVE ZeroPad(_, _)
ZeroPad(s, places) == IF Len(s) >= places THEN s ELSE ZeroPad(<<"0">> \o s, places)

\* f"seven_segment_{digit}_{i:04d}.png"
Filename(d, i) ==
    NamePrefix \o <<d>> \o <<"_">> \o ZeroPad(str(i), 4) \o <<".", "p", "n", "g">>

UpperChars ==
    <<"A", "B", "C", "D", "E", "F", "G", "H", "I", "J", "K", "L", "M",
      "N", "O", "P", "Q", "R", "S", "T", "U", "V", "W", "X", "Y", "Z">>

LowerChars ==
    <<"a", "b", "c", "d", "e", "f", "g", "h", "i", "j", "k", "l", "m",
      "n", "o", "p", "q", "r", "s", "t", "u", "v", "w", "x", "y", "z">>

\* s.lower()
lower(s) ==
    [k \in 1..Len(s) |->
        IF \E j \in 1..Len(UpperChars) : UpperChars[j] = s[k]
        THEN LowerChars[CHOOSE j \in 1..Len(UpperChars) : UpperChars[j] = s[k]]
        ELSE s[k]]

\* s.startswith(prefix)
startswith(s, prefix) ==
    Len(s) >= Len(prefix) /\ SubSeq(s, 1, Len(prefix)) = prefix

\* s.endswith(suffixes), for a tuple of suffixes
endswith(s, suffixes) ==
    \E suffix \in suffixes :
        Len(s) >= Len(suffix)
            /\ SubSeq(s, Len(s) - Len(suffix) + 1, Len(s)) = suffix

\* part in s
contains(s, part) ==
    \E k \in 1..(Len(s) - Len(part) + 1) : SubSeq(s, k, k + Len(part) - 1) = part

\* s.split(sep) for a one-character sep: the fields between the separators
RECURSIVE split(_, _)
split(s, sep) ==
    IF \A k \in 1..Len(s) : s[k] # sep THEN <<s>>
    ELSE LET first == CHOOSE k \in 1..Len(s) :
                          s[k] = sep /\ \A j \in 1..(k - 1) : s[j] # sep
         IN  <<SubSeq(s, 1, first - 1)>> \o split(SubSeq(s, first + 1, Len(s)), sep)

\* fname.split("_")[2]: the third field
LabelField == 3

ParseLabelOfLastField(name) ==
    LET fields == split(name, "_")
    IN  IF ~IsDigit(fields[Len(fields)]) THEN [raised |-> "ValueError"]
        ELSE [raised |-> "", value |-> DigitsValue(fields[Len(fields)])]

\* int(fname.split("_")[2]): IndexError with fewer than three fields,
\* ValueError when the field is not a number
ParseLabel(name) ==
    LET fields == split(name, "_")
    IN  IF Len(fields) < LabelField THEN [raised |-> "IndexError"]
        ELSE IF ~IsDigit(fields[LabelField]) THEN [raised |-> "ValueError"]
        ELSE [raised |-> "", value |-> DigitsValue(fields[LabelField])]

\* what a reader keeps of a name it has filtered and parsed
Reading(kept, label) ==
    IF kept /\ label.raised = ""
    THEN [accepted |-> TRUE, label |-> label.value]
    ELSE [accepted |-> FALSE, label |-> None]

\* load_dataset: names ending in an image suffix whatever the case, starting
\* with seven_segment_, whose third field int() takes
load_dataset_label(name) ==
    Reading(endswith(lower(name), ImageSuffixes) /\ startswith(name, NamePrefix),
            ParseLabel(name))

\* benchmark_model: names ending in an image suffix, holding seven_segment_,
\* whose third field int() takes
benchmark_model_label(name) ==
    Reading(endswith(name, ImageSuffixes) /\ contains(name, NamePrefix),
            ParseLabel(name))

\* a reader meets the file generate_dataset wrote for sample i of digit d
ReadSample(reader, d, i) ==
    /\ op = "idle"
    /\ op' = reader
    /\ digit' = d
    /\ index' = i
    /\ filename' = Filename(d, i)
    /\ parsed' = IF reader = "load_dataset"
                 THEN load_dataset_label(Filename(d, i))
                 ELSE benchmark_model_label(Filename(d, i))
    /\ UNCHANGED <<ocrvars, genvars, estvars, rngvars, appvars, seqvars,
                   datavars, active_segments>>

\* EnhancedSevenSegmentCNN_2K_V3.load_dataset, at one file of the directory
LoadDataset ==
    \E k \in 1..Len(DatasetDigits), i \in Indices :
        ReadSample("load_dataset", DatasetDigits[k], i)

\* SevenSegmentOCR.benchmark_model, at one file of the directory
BenchmarkModel ==
    \E k \in 1..Len(DatasetDigits), i \in Indices :
        ReadSample("benchmark_model", DatasetDigits[k], i)

NameNext ==
    \/ LoadDataset
    \/ BenchmarkModel
    \/ Return

NameSpec == RngInit /\ [][NameNext]_vars

\* a reader has met a generated file
ReaderCall == op \in {"load_dataset", "benchmark_model"}

(* C27: the file name generate_dataset writes for sample i of digit d is   *)
(* accepted by load_dataset and by benchmark_model, the label they parse   *)
(* from its third '_'-separated field is d, and no other pair (d, i) is    *)
(* given the same name.                                                    *)
C27_FilenameRoundTrip ==
    ReaderCall
        => /\ parsed.accepted
           /\ parsed.label = DigitChars[digit]
           /\ split(filename, "_")[3] = <<digit>>
           /\ \A k \in 1..Len(DatasetDigits), i \in Indices :
                 Filename(DatasetDigits[k], i) = filename
                    => (DatasetDigits[k] = digit /\ i = index)

\* sample 10000 of digit 7, whose index no longer fits four places
C27_Witness ==
    /\ op = "benchmark_model"
    /\ digit = "7"
    /\ index = 10000
    /\ Len(filename) = Len(NamePrefix) + 11
    /\ parsed = [accepted |-> TRUE, label |-> 7]

----------------------------------------------------------------------------
(* State machine of generate_dataset, one sample per step, and of the      *)
(* validator's validate_integrity on the dataset it wrote.                 *)

MaxSamples == 4

\* the position of the loops once sample i of digit number k is done:
\* the next sample, the next digit, or past the last digit
AfterSample(k, i, n) ==
    IF i + 1 < n THEN [ds_pc |-> k, index |-> i + 1]
    ELSE [ds_pc |-> k + 1, index |-> 0]

sample_idWithinDigit(counted, i) == i

\* metadata['sample_id'] = sample_count
sample_id(counted, i) == counted

\* generate_dataset(output_dir, samples_per_digit, img_width, img_height),
\* up to the loops: with no sample per digit the loops have no pass
GenerateDataset ==
    /\ op = "idle"
    /\ op' = "generate_dataset"
    /\ \E n \in 0..MaxSamples, size \in Sizes :
          /\ samples_per_digit' = n
          /\ width' = size[1]
          /\ height' = size[2]
          /\ ds_pc' = IF n = 0 THEN Len(DatasetDigits) + 1 ELSE 1
    /\ index' = 0
    /\ all_metadata' = <<>>
    /\ sample_count' = 0
    /\ UNCHANGED <<ocrvars, estvars, rngvars, appvars, seqvars, digit,
                   active_segments, clean_img, img, result_buf, gen_pc, iter,
                   count, applied, particle, metadata, gen_error, filename,
                   parsed, summary>>

\* one pass of for i in range(samples_per_digit): generate_sample(digit),
\* which raises on a canvas the smudges do not fit; the file, the two
\* fields added to the metadata, the append and the count
GenerateDatasetSample ==
    /\ op = "generate_dataset"
    /\ raised = ""
    /\ ds_pc \in 1..Len(DatasetDigits)
    /\ digit' = DatasetDigits[ds_pc]
    /\ IF ~SmudgeFits
       THEN /\ raised' = "ValueError"
            /\ UNCHANGED <<filename, all_metadata, sample_count, index, ds_pc>>
       ELSE /\ raised' = ""
            /\ filename' = Filename(DatasetDigits[ds_pc], index)
            /\ all_metadata' =
                   Append(all_metadata,
                          [digit |-> DatasetDigits[ds_pc],
                           width |-> width,
                           height |-> height,
                           effects_applied |-> EffectsApplied,
                           filename |-> Filename(DatasetDigits[ds_pc], index),
                           sample_id |-> sample_id(sample_count, index)])
            /\ sample_count' = sample_count + 1
            /\ index' = AfterSample(ds_pc, index, samples_per_digit).index
            /\ ds_pc' = AfterSample(ds_pc, index, samples_per_digit).ds_pc
    /\ UNCHANGED <<ocrvars, estvars, rngvars, appvars, model, images, op,
                   active_segments, genvars, parsed, samples_per_digit, summary>>

\* after the loops: the metadata file and the summary are written
WriteSummary ==
    /\ op = "generate_dataset"
    /\ ds_pc = Len(DatasetDigits) + 1
    /\ ds_pc' = Len(DatasetDigits) + 2
    /\ summary' = [total_samples |-> sample_count,
                   samples_per_digit |-> samples_per_digit,
                   digits |-> DatasetDigits,
                   image_dimensions |-> [width |-> width, height |-> height]]
    /\ UNCHANGED <<ocrvars, estvars, rngvars, appvars, seqvars, namevars, op,
                   digit, active_segments, genvars, samples_per_digit,
                   all_metadata, sample_count>>

\* generate_dataset has returned: the dataset is on disk
Produced == ds_pc = Len(DatasetDigits) + 2

\* Counter(item['digit'] for item in self.metadata)
digit_counts(items) ==
    [d \in {items[k].digit : k \in 1..Len(items)} |->
        Cardinality({k \in 1..Len(items) : items[k].digit = d})]

\* min_count / max_count if max_count > 0 else 0, against 0.8
dataset_balanced(counts) ==
    LET values == {counts[d] : d \in DOMAIN counts}
        min_count == IF values = {} THEN 0
                     ELSE CHOOSE v \in values : \A w \in values : v <= w
        max_count == IF values = {} THEN 0
                     ELSE CHOOSE v \in values : \A w \in values : v >= w
    IN  IF max_count > 0 THEN 10 * min_count >= 8 * max_count ELSE FALSE

\* the checks validate_integrity makes on the metadata it loaded
validate_integrity(items) ==
    [metadata_exists |-> Len(items) > 0,
     all_digits_present |-> Range(DatasetDigits) = DOMAIN digit_counts(items),
     dataset_balanced |-> dataset_balanced(digit_counts(items))]

\* DatasetValidator(output_dir).validate_integrity() on the dataset written:
\* the metadata comes back from dataset_metadata.json as it was dumped
ValidateIntegrity ==
    /\ op = "generate_dataset"
    /\ Produced
    /\ op' = "validate_integrity"
    /\ ret' = validate_integrity(all_metadata)
    /\ UNCHANGED <<cnn_available, tesseract_available, methods, imageOk,
                   segment_states, cnnPred, text, invoked, results, estvars,
                   rngvars, appvars, seqvars, namevars, datavars, digit,
                   active_segments, genvars>>

DatasetNext ==
    \/ GenerateDataset
    \/ GenerateDatasetSample
    \/ WriteSummary
    \/ ValidateIntegrity
    \/ Return

DatasetSpec == RngInit /\ [][DatasetNext]_vars

(* C28: a dataset produced with samples_per_digit = n >= 1 has 10n         *)
(* metadata records whose sample_id values are 0, 1, ..., 10n - 1 in the   *)
(* order generated, a summary with total_samples = 10n, and the validator  *)
(* finds its metadata non-empty, with exactly the ten digits and balanced. *)
C28_DatasetCountsAndIds ==
    (Produced /\ samples_per_digit >= 1)
        => /\ Len(all_metadata) = 10 * samples_per_digit
           /\ \A k \in 1..Len(all_metadata) : all_metadata[k].sample_id = k - 1
           /\ summary.total_samples = 10 * samples_per_digit
           /\ op = "validate_integrity"
                 => /\ ret.metadata_exists
                    /\ ret.all_digits_present
                    /\ ret.dataset_balanced

\* a dataset of two samples per digit, validated
C28_Witness ==
    /\ op = "validate_integrity"
    /\ samples_per_digit = 2
    /\ Len(all_metadata) = 20
    /\ all_metadata[20].sample_id = 19
    /\ all_metadata[20].filename = Filename("9", 1)
    /\ ret.dataset_balanced

====
